---- MODULE Spec2Model ----
(***************************************************************************)
(* Run Control Plane of the workflow dashboard (packages/web server        *)
(* actions): the World instance cache (getWorldFromEnv), the error         *)
(* classifier (createServerActionError), the response envelope             *)
(* (createResponse) and the wake-up reconciler (wakeUpRun).                *)
(*                                                                         *)
(* JavaScript runs each server action on one event loop: a handler runs    *)
(* without interruption from one `await` to the next.  Every action below  *)
(* is one such uninterrupted stretch: the awaited call completes at the    *)
(* World and the handler continues up to its next await or its return.     *)
(***************************************************************************)
EXTENDS Integers, Sequences, FiniteSets, TLC

VARIABLES
  processEnv,   \* process.env, the ambient process configuration
  worldCache,   \* const worldCache = new Map<string, World>()
  nextWorld,    \* number of World instances createWorld() has returned
  cacheLog,     \* history: one entry per getWorldFromEnv call
  events,       \* the World's event log of every run
  queued,       \* the messages world.queue() accepted, in order
  calls,        \* the server-action invocations in flight, one per request slot
  prev,         \* history: the last invocation that returned
  nCalls,       \* number of invocations started
  probe         \* inputs and outputs of the pure-function specifications

vars == <<processEnv, worldCache, nextWorld, cacheLog, events, queued, calls, prev,
          nCalls, probe>>

-----------------------------------------------------------------------------
(* Bounds *)

\* number of server-action invocations in one behaviour
MaxCalls == 2
\* number of requests the host handles at the same time
MaxInFlight == 2
\* largest event log a run starts with
MaxEvents == 4
\* largest caller-supplied EnvMap of the fingerprint specification
MaxKeys == 3

\* pagination: { limit: 1000 } of wakeUpRun's events.list call, scaled down
\* from 1000 so that a run can hold more events than one page.
PageLimit == 3

Slots == 1..MaxInFlight

-----------------------------------------------------------------------------
(* Values *)

\* JavaScript's undefined (an absent property, an unset environment variable)
Undefined == "<undefined>"

\* an absent (falsy) status of a failure
NoStatus == 0

Truthy(s) == s # Undefined /\ s # ""

RECURSIVE SeqToSet(_)
SeqToSet(s) == IF s = <<>> THEN {} ELSE {Head(s)} \cup SeqToSet(Tail(s))

RECURSIVE SelectSeqBy(_, _)
\* Array.prototype.filter with the predicate given as the set of kept values
SelectSeqBy(s, keep) ==
  IF s = <<>> THEN <<>>
  ELSE IF Head(s) \in keep THEN <<Head(s)>> \o SelectSeqBy(Tail(s), keep)
  ELSE SelectSeqBy(Tail(s), keep)

-----------------------------------------------------------------------------
(* Config Resolver: EnvMap, buildEnvMapFromProcessEnv, the cache key *)

\* The names buildEnvMapFromProcessEnv reads, in the order of its literal.
ServerKeys ==
  << "WORKFLOW_TARGET_WORLD", "WORKFLOW_VERCEL_ENV", "WORKFLOW_VERCEL_AUTH_TOKEN",
     "WORKFLOW_VERCEL_PROJECT", "WORKFLOW_VERCEL_TEAM", "PORT",
     "WORKFLOW_MANIFEST_PATH", "WORKFLOW_LOCAL_DATA_DIR", "WORKFLOW_POSTGRES_URL" >>

\* Every environment name of the file, in the order Array.prototype.sort()
\* gives strings (UTF-16 code units).
KeyOrder ==
  << "PORT", "VERCEL_DEPLOYMENT_ID", "WORKFLOW_EMBEDDED_DATA_DIR",
     "WORKFLOW_LOCAL_DATA_DIR", "WORKFLOW_MANIFEST_PATH", "WORKFLOW_POSTGRES_URL",
     "WORKFLOW_TARGET_WORLD", "WORKFLOW_VERCEL_AUTH_TOKEN", "WORKFLOW_VERCEL_ENV",
     "WORKFLOW_VERCEL_PROJECT", "WORKFLOW_VERCEL_TEAM" >>

EnvKeys == SeqToSet(KeyOrder)

KeyRank(k) == CHOOSE i \in 1..Len(KeyOrder) : KeyOrder[i] = k

\* An EnvMap (Record<string, string | undefined>) is the sequence of its
\* <<key, value>> entries in insertion order, keys distinct.
ObjectKeys(m) == [i \in 1..Len(m) |-> m[i][1]]

ObjectGet(m, k) ==
  IF \E i \in 1..Len(m) : m[i][1] = k
  THEN m[CHOOSE i \in 1..Len(m) : m[i][1] = k][2]
  ELSE Undefined

buildEnvMapFromProcessEnv(env) ==
  [i \in 1..Len(ServerKeys) |-> <<ServerKeys[i], env[ServerKeys[i]]>>]

hasServerConfig(serverEnvMap) ==
  \E i \in 1..Len(serverEnvMap) :
     serverEnvMap[i][2] # Undefined /\ serverEnvMap[i][2] # ""

\* faulty variant of effectiveEnvMap: a caller-supplied EnvMap comes first
effectiveEnvMap_CallerFirst(env, envMap) ==
  LET serverEnvMap == buildEnvMapFromProcessEnv(env)
  IN  IF envMap # <<>> THEN envMap ELSE serverEnvMap

\* const effectiveEnvMap = hasServerConfig ? serverEnvMap : envMap
effectiveEnvMap(env, envMap) ==
  LET serverEnvMap == buildEnvMapFromProcessEnv(env)
  IN  IF hasServerConfig(serverEnvMap) THEN serverEnvMap ELSE envMap

RECURSIVE InsertKey(_, _)
InsertKey(k, sorted) ==
  IF sorted = <<>> THEN <<k>>
  ELSE IF KeyRank(k) <= KeyRank(Head(sorted)) THEN <<k>> \o sorted
  ELSE <<Head(sorted)>> \o InsertKey(k, Tail(sorted))

RECURSIVE SortKeys(_)
\* Object.keys(effectiveEnvMap).sort()
SortKeys(ks) == IF ks = <<>> THEN <<>> ELSE InsertKey(Head(ks), SortKeys(Tail(ks)))

RECURSIVE JSONStringify(_)
\* JSON.stringify of an object given as its entries: a property whose value
\* is undefined is left out, an empty string is written as "".
JSONStringify(entries) ==
  IF entries = <<>> THEN <<>>
  ELSE IF Head(entries)[2] = Undefined THEN JSONStringify(Tail(entries))
  ELSE <<Head(entries)>> \o JSONStringify(Tail(entries))

\* faulty variant of sortedKeys: the keys are left in insertion order
sortedKeys_Unsorted(m) == ObjectKeys(m)

sortedKeys(m) == SortKeys(ObjectKeys(m))

sortedEntries(m) ==
  LET ks == sortedKeys(m) IN [i \in 1..Len(ks) |-> <<ks[i], ObjectGet(m, ks[i])>>]

cacheKey(m) == JSONStringify(sortedEntries(m))

\* faulty variant of ApplyEnv: empty values are written too
ApplyEnv_WritesEmpty(env, m) ==
  [k \in DOMAIN env |->
     IF \E i \in 1..Len(m) : m[i][1] = k /\ m[i][2] # Undefined
     THEN ObjectGet(m, k)
     ELSE env[k]]

RECURSIVE ApplyEnv(_, _)
\* for (const [key, value] of Object.entries(effectiveEnvMap)): process.env[key] = value
ApplyEnv(env, m) ==
  IF m = <<>> THEN env
  ELSE LET k == Head(m)[1]
           v == Head(m)[2]
       IN  IF v = Undefined \/ v = ""
           THEN ApplyEnv(env, Tail(m))
           ELSE ApplyEnv([env EXCEPT ![k] = v], Tail(m))

-----------------------------------------------------------------------------
(* Instance Cache: getWorldFromEnv *)

\* createWorld() of @workflow/core/runtime: a new World instance on every
\* call that returns; n is the number of instances made so far.
createWorld(n) == [id |-> n + 1]

\* what createWorld() raises when it cannot build the configured World
CreateWorldError == [kind |-> "Error", status |-> NoStatus, message |-> "createWorld failed"]

NoWorld == [id |-> 0]

\* faulty variant of cacheHas: the cache is never consulted
cacheHas_NoLookup(key) == FALSE

\* worldCache.get(cacheKey) is truthy
cacheHas(key) == key \in DOMAIN worldCache

\* faulty variant of getWorldFromEnv: the cache entry is written before
\* createWorld() returns, so a failed construction stays cached
getWorldFromEnv_CacheFailure(envMap, ok) ==
  LET eff == effectiveEnvMap(processEnv, envMap)
      key == cacheKey(eff)
  IN  IF cacheHas(key)
      THEN [threw |-> FALSE, world |-> worldCache[key], env |-> processEnv,
            cache |-> worldCache, made |-> 0, key |-> key, outcome |-> "hit"]
      ELSE LET env2 == ApplyEnv(processEnv, eff)
               world == createWorld(nextWorld)
           IN  IF ok
               THEN [threw |-> FALSE, world |-> world, env |-> env2,
                     cache |-> (key :> world) @@ worldCache, made |-> 1,
                     key |-> key, outcome |-> "constructed"]
               ELSE [threw |-> TRUE, world |-> NoWorld, env |-> env2,
                     cache |-> (key :> NoWorld) @@ worldCache, made |-> 0,
                     key |-> key, outcome |-> "failed"]

\* faulty variant of getWorldFromEnv: worldCache.set is left out
getWorldFromEnv_NoStore(envMap, ok) ==
  LET eff == effectiveEnvMap(processEnv, envMap)
      key == cacheKey(eff)
  IN  IF cacheHas(key)
      THEN [threw |-> FALSE, world |-> worldCache[key], env |-> processEnv,
            cache |-> worldCache, made |-> 0, key |-> key, outcome |-> "hit"]
      ELSE LET env2 == ApplyEnv(processEnv, eff)
               world == createWorld(nextWorld)
           IN  IF ok
               THEN [threw |-> FALSE, world |-> world, env |-> env2,
                     cache |-> worldCache, made |-> 1,
                     key |-> key, outcome |-> "constructed"]
               ELSE [threw |-> TRUE, world |-> NoWorld, env |-> env2,
                     cache |-> worldCache, made |-> 0,
                     key |-> key, outcome |-> "failed"]

\* The whole of getWorldFromEnv(envMap).  ok tells whether createWorld()
\* returns (TRUE) or throws (FALSE) should the call reach it.  The result
\* holds the World returned (or threw = TRUE) and the process state left.
\* The function has no await: it runs as one step of the event loop.
getWorldFromEnv(envMap, ok) ==
  LET eff == effectiveEnvMap(processEnv, envMap)
      key == cacheKey(eff)
  IN  IF cacheHas(key)
      THEN [threw |-> FALSE, world |-> worldCache[key], env |-> processEnv,
            cache |-> worldCache, made |-> 0, key |-> key, outcome |-> "hit"]
      ELSE LET env2 == ApplyEnv(processEnv, eff)
               world == createWorld(nextWorld)
           IN  IF ok
               THEN [threw |-> FALSE, world |-> world, env |-> env2,
                     cache |-> (key :> world) @@ worldCache, made |-> 1,
                     key |-> key, outcome |-> "constructed"]
               ELSE [threw |-> TRUE, world |-> NoWorld, env |-> env2,
                     cache |-> worldCache, made |-> 0,
                     key |-> key, outcome |-> "failed"]

-----------------------------------------------------------------------------
(* Error Classifier and Response Envelope *)

\* A raised failure: kind is the class WorkflowAPIError.is /
\* WorkflowRunNotFoundError.is recognise ("Error" for anything else), status
\* the status it carries (NoStatus when it carries none).
Failure(kind, status, message) == [kind |-> kind, status |-> status, message |-> message]

\* error.message?.includes('Network') || error.message?.includes('fetch')
MentionsNetwork(message) == message \in {"Network request failed", "fetch failed"}

\* faulty variant of getUserFacingErrorMessage: without a status the raw
\* message is returned as it is
getUserFacingErrorMessage_NoPrefix(error, status) ==
  IF status = NoStatus THEN <<error.message>>
  ELSE IF status = 403 \/ status = 401
       THEN <<"Access denied. Please check your credentials and permissions.">>
  ELSE IF status = 404 THEN <<"The requested resource was not found.">>
  ELSE IF status = 500
       THEN <<"Error connecting to World backend, please try again later.">>
  ELSE IF MentionsNetwork(error.message)
       THEN <<"Network error. Please check your connection and try again.">>
  ELSE IF error.message # "" THEN <<error.message>>
  ELSE <<"An unexpected error occurred">>

\* faulty variant of getUserFacingErrorMessage: status 500 has no text of
\* its own
getUserFacingErrorMessage_Leak500(error, status) ==
  IF status = NoStatus THEN <<"Error creating response: ", error.message>>
  ELSE IF status = 403 \/ status = 401
       THEN <<"Access denied. Please check your credentials and permissions.">>
  ELSE IF status = 404 THEN <<"The requested resource was not found.">>
  ELSE IF MentionsNetwork(error.message)
       THEN <<"Network error. Please check your connection and try again.">>
  ELSE IF error.message # "" THEN <<error.message>>
  ELSE <<"An unexpected error occurred">>

\* A message is the sequence of the pieces the code concatenates.
getUserFacingErrorMessage(error, status) ==
  IF status = NoStatus THEN <<"Error creating response: ", error.message>>
  ELSE IF status = 403 \/ status = 401
       THEN <<"Access denied. Please check your credentials and permissions.">>
  ELSE IF status = 404 THEN <<"The requested resource was not found.">>
  ELSE IF status = 500
       THEN <<"Error connecting to World backend, please try again later.">>
  ELSE IF MentionsNetwork(error.message)
       THEN <<"Network error. Please check your connection and try again.">>
  ELSE IF error.message # "" THEN <<error.message>>
  ELSE <<"An unexpected error occurred">>

\* faulty variant of createServerActionError: every failure takes the last branch
createServerActionError_AllServer(error, operation, requestParams) ==
  [success |-> FALSE,
   error |-> [message |-> getUserFacingErrorMessage(error, NoStatus),
              layer |-> "server", cause |-> error.message,
              request |-> [operation |-> operation, params |-> requestParams,
                           status |-> 500]]]

\* faulty variant of createServerActionError: a WorkflowRunNotFoundError is
\* given the status it carries
createServerActionError_StatusKept(error, operation, requestParams) ==
  IF error.kind \in {"WorkflowAPIError", "WorkflowRunNotFoundError"}
  THEN [success |-> FALSE,
        error |-> [message |-> getUserFacingErrorMessage(error, error.status),
                   layer |-> "API", cause |-> error.message,
                   request |-> [operation |-> operation, params |-> requestParams,
                                status |-> error.status]]]
  ELSE [success |-> FALSE,
        error |-> [message |-> getUserFacingErrorMessage(error, NoStatus),
                   layer |-> "server", cause |-> error.message,
                   request |-> [operation |-> operation, params |-> requestParams,
                                status |-> 500]]]

\* faulty variant of createServerActionError: a WorkflowAPIError counts as
\* one only when it carries a status
createServerActionError_StatusDecides(error, operation, requestParams) ==
  IF error.kind = "WorkflowAPIError" /\ error.status # NoStatus
  THEN [success |-> FALSE,
        error |-> [message |-> getUserFacingErrorMessage(error, error.status),
                   layer |-> "API", cause |-> error.message,
                   request |-> [operation |-> operation, params |-> requestParams,
                                status |-> error.status]]]
  ELSE IF error.kind = "WorkflowRunNotFoundError"
  THEN [success |-> FALSE,
        error |-> [message |-> getUserFacingErrorMessage(error, 404),
                   layer |-> "API", cause |-> error.message,
                   request |-> [operation |-> operation, params |-> requestParams,
                                status |-> 404]]]
  ELSE [success |-> FALSE,
        error |-> [message |-> getUserFacingErrorMessage(error, NoStatus),
                   layer |-> "server", cause |-> error.message,
                   request |-> [operation |-> operation, params |-> requestParams,
                                status |-> 500]]]

\* `error` is the failure as line 323 normalises it (err): its message is
\* err.message, for a thrown value that is no Error String(value).
createServerActionError(error, operation, requestParams) ==
  IF error.kind = "WorkflowAPIError"
  THEN [success |-> FALSE,
        error |-> [message |-> getUserFacingErrorMessage(error, error.status),
                   layer |-> "API", cause |-> error.message,
                   request |-> [operation |-> operation, params |-> requestParams,
                                status |-> error.status]]]
  ELSE IF error.kind = "WorkflowRunNotFoundError"
  THEN [success |-> FALSE,
        error |-> [message |-> getUserFacingErrorMessage(error, 404),
                   layer |-> "API", cause |-> error.message,
                   request |-> [operation |-> operation, params |-> requestParams,
                                status |-> 404]]]
  ELSE [success |-> FALSE,
        error |-> [message |-> getUserFacingErrorMessage(error, NoStatus),
                   layer |-> "server", cause |-> error.message,
                   request |-> [operation |-> operation, params |-> requestParams,
                                status |-> 500]]]

\* JavaScript values handed to createResponse: tagged by what JSON.stringify
\* distinguishes.
JSNumber(n) == [t |-> "number", v |-> n]
JSString(s) == [t |-> "string", s |-> s]
JSUndefined == [t |-> "undefined"]
JSFunction == [t |-> "function"]
JSObject(props) == [t |-> "object", props |-> props]
JSNull == [t |-> "null"]
JSBigInt == [t |-> "bigint"]
\* a Date, by the text its toJSON() returns
JSDate(iso) == [t |-> "date", iso |-> iso]
JSArray(items) == [t |-> "array", items |-> items]
\* a member that refers back to the object that contains it
JSCycle == [t |-> "cycle"]

RECURSIVE stringifyThrows(_)
\* JSON.stringify(v) raises a TypeError: v holds a BigInt or is circular
stringifyThrows(v) ==
  IF v.t \in {"bigint", "cycle"} THEN TRUE
  ELSE IF v.t = "object"
  THEN \E i \in 1..Len(v.props) : stringifyThrows(v.props[i][2])
  ELSE IF v.t = "array"
  THEN \E i \in 1..Len(v.items) : stringifyThrows(v.items[i])
  ELSE FALSE

RECURSIVE JSONRoundTrip(_)
RECURSIVE JSONRoundTripProps(_)
\* JSON.parse(JSON.stringify(v)) of an object: members that are undefined or
\* functions are dropped, nested objects are copied member by member.
JSONRoundTripProps(props) ==
  IF props = <<>> THEN <<>>
  ELSE LET k == Head(props)[1]
           v == Head(props)[2]
       IN  IF v.t \in {"undefined", "function"}
           THEN JSONRoundTripProps(Tail(props))
           ELSE <<<<k, JSONRoundTrip(v)>>>> \o JSONRoundTripProps(Tail(props))

\* JSON.parse(JSON.stringify(v)) when JSON.stringify does not raise: an array
\* keeps its length (undefined and function items become null), a Date
\* becomes the string of its toJSON().
JSONRoundTrip(v) ==
  IF v.t = "object" THEN JSObject(JSONRoundTripProps(v.props))
  ELSE IF v.t = "array"
  THEN JSArray([i \in 1..Len(v.items) |->
                  IF v.items[i].t \in {"undefined", "function"} THEN JSNull
                  ELSE JSONRoundTrip(v.items[i])])
  ELSE IF v.t = "date" THEN JSString(v.iso)
  ELSE v

\* typeof data === 'object' (and data is not null)
IsObjectType(data) == data.t \in {"object", "array", "date"}

\* toJSONCompatible(data) raises what JSON.stringify raises (line 409)
toJSONCompatibleThrows(data) == IsObjectType(data) /\ stringifyThrows(data)

\* if (data && typeof data === 'object') JSON.parse(JSON.stringify(data))
toJSONCompatible(data) == IF IsObjectType(data) THEN JSONRoundTrip(data) ELSE data

createResponse(data) == [success |-> TRUE, data |-> toJSONCompatible(data)]

\* the member `name` of a success result's data
DataField(result, name) == ObjectGet(result.data.props, name)

-----------------------------------------------------------------------------
(* The World (execution store) as the server actions use it *)

\* The runs the World holds: runs.get(id) returns RunTable[id].
RunTable ==
  [r \in {"r1", "r2", "r3"} |->
     IF r = "r1" THEN [runId |-> "r1", workflowName |-> "wfA", deploymentId |-> "dpl1"]
     ELSE IF r = "r2" THEN [runId |-> "r2", workflowName |-> "wfB", deploymentId |-> "dpl2"]
     ELSE [runId |-> "r3", workflowName |-> "wfA", deploymentId |-> "dpl3"]]

NoRun == [runId |-> "", workflowName |-> "", deploymentId |-> ""]

Event(type, corr) == [eventType |-> type, correlationId |-> corr]

\* what runs.get raises for a run the World does not hold
NotFoundFailures ==
  { Failure("WorkflowRunNotFoundError", NoStatus, "run not found"),
    Failure("WorkflowAPIError", 404, "Not Found") }

\* what any call on the World may raise when the backend is unreachable
TransientFailures == { Failure("WorkflowAPIError", 500, "Internal Server Error") }

Min(a, b) == IF a <= b THEN a ELSE b

\* events.list({ runId, pagination: { limit } }): the first page of the log
eventsList(log, limit) == SubSeq(log, 1, Min(limit, Len(log)))

-----------------------------------------------------------------------------
(* Wake-Up Reconciler: the pure part of wakeUpRun *)

NoOptions == [has |-> FALSE, correlationIds |-> <<>>]
Options(ids) == [has |-> TRUE, correlationIds |-> ids]

\* eventsResult.data.filter((e) => e.eventType === 'wait_created')
waitCreatedEvents(data) ==
  SelectSeqBy(data, {e \in SeqToSet(data) : e.eventType = "wait_created"})

\* new Set(data.filter(wait_completed).map((e) => e.correlationId))
waitCompletedCorrelationIds(data) ==
  {e.correlationId : e \in {x \in SeqToSet(data) : x.eventType = "wait_completed"}}

\* faulty variant of hasTargets: an empty list is a filter too
hasTargets_AnyList(options) == options.has

\* options?.correlationIds && options.correlationIds.length > 0
hasTargets(options) == options.has /\ Len(options.correlationIds) > 0

\* faulty variant of pendingWaits: waits are not paired with their completions
pendingWaits_IgnoreCompleted(data, options) ==
  LET pending == waitCreatedEvents(data)
  IN  IF hasTargets(options)
      THEN SelectSeqBy(pending,
             {e \in SeqToSet(pending) :
                /\ Truthy(e.correlationId)
                /\ e.correlationId \in SeqToSet(options.correlationIds)})
      ELSE pending

\* the value of pendingWaits when the loop starts
pendingWaits(data, options) ==
  LET created == waitCreatedEvents(data)
      completed == waitCompletedCorrelationIds(data)
      pending == SelectSeqBy(created,
                   {e \in SeqToSet(created) : e.correlationId \notin completed})
  IN  IF hasTargets(options)
      THEN SelectSeqBy(pending,
             {e \in SeqToSet(pending) :
                /\ Truthy(e.correlationId)
                /\ e.correlationId \in SeqToSet(options.correlationIds)})
      ELSE pending

\* faulty variant of nextCreate: every pending wait makes an events.create
\* call
nextCreate_NoGuard(pending, from) == IF from <= Len(pending) THEN from ELSE 0

\* The for loop: the index of the first wait at or after `from` that makes
\* an events.create call (if (waitEvent.correlationId)), 0 when none is left.
nextCreate(pending, from) ==
  IF \E i \in from..Len(pending) : Truthy(pending[i].correlationId)
  THEN CHOOSE i \in from..Len(pending) :
         /\ Truthy(pending[i].correlationId)
         /\ \A j \in from..(i - 1) : ~Truthy(pending[j].correlationId)
  ELSE 0

\* faulty variant of queueName: the queue is named after the run
queueName_PerRun(run) == <<"__wkf_workflow_", run.workflowName, run.runId>>

\* `__wkf_workflow_${run.workflowName}`
queueName(run) == <<"__wkf_workflow_", run.workflowName>>

\* world.queue(name, { runId }, { deploymentId })
queueMessage(run, runId) ==
  [queueName |-> queueName(run), payload |-> [runId |-> runId],
   opts |-> [deploymentId |-> run.deploymentId]]

\* { runId, correlationIds: options?.correlationIds }
wakeParams(runId, options) == [runId |-> runId, correlationIds |-> options]

-----------------------------------------------------------------------------
(* Server-action invocations *)

NoResult == [success |-> FALSE, returned |-> FALSE]

IdleCall ==
  [pc |-> "idle", op |-> "", runId |-> "", options |-> NoOptions, world |-> NoWorld,
   run |-> NoRun, page |-> <<>>, logAtList |-> <<>>, pendingWaits |-> <<>>,
   idx |-> 0, result |-> NoResult, trace |-> <<>>, key |-> <<>>]

\* one entry of a call's trace: a call on the World that completed
Did(call, corr, ok) == [call |-> call, corr |-> corr, ok |-> ok]

\* the call returns `result`
Returned(c, result) == [c EXCEPT !.pc = "done", !.result = result]

\* faulty variant of wakeCatch: the failure leaves the server action
wakeCatch_Rethrow(c, error) == [c EXCEPT !.pc = "threw"]

\* catch (error) { return createServerActionError(error, 'wakeUpRun', {...}) }
wakeCatch(c, error) ==
  Returned(c, createServerActionError(error, "wakeUpRun", wakeParams(c.runId, c.options)))

\* faulty variant of afterLoopStep: the run is dispatched without waiting
\* for the appends
afterLoopStep_QueueFirst(c, from) ==
  IF Len(c.pendingWaits) > 0
  THEN [c EXCEPT !.pc = "queue", !.idx = 0]
  ELSE IF nextCreate(c.pendingWaits, from) # 0
  THEN [c EXCEPT !.pc = "events.create", !.idx = nextCreate(c.pendingWaits, from)]
  ELSE Returned(c, createResponse(
         JSObject(<< <<"stoppedCount", JSNumber(Len(c.pendingWaits))>> >>)))

\* What the handler does once the loop is at index `from`: the next
\* events.create call, else the queue call, else the return.
afterLoopStep(c, from) ==
  IF nextCreate(c.pendingWaits, from) # 0
  THEN [c EXCEPT !.pc = "events.create", !.idx = nextCreate(c.pendingWaits, from)]
  ELSE IF Len(c.pendingWaits) > 0
  THEN [c EXCEPT !.pc = "queue", !.idx = 0]
  ELSE Returned(c, createResponse(
         JSObject(<< <<"stoppedCount", JSNumber(Len(c.pendingWaits))>> >>)))

\* history of the cache: what a getWorldFromEnv call resolved and got
CacheLogEntry(g) == [key |-> g.key, outcome |-> g.outcome, world |-> g.world]

\* wakeUpRun(worldEnv, runId, options) up to its first await:
\* getWorldFromEnv({ ...worldEnv }), then world.runs.get(runId) is issued.
WakeStart(p, envMap, runId, options, ok) ==
  /\ calls[p].pc = "idle"
  /\ nCalls < MaxCalls
  /\ LET g == getWorldFromEnv(envMap, ok)
         c == [IdleCall EXCEPT !.op = "wakeUpRun", !.runId = runId,
                               !.options = options, !.world = g.world,
                               !.key = g.key]
     IN  /\ processEnv' = g.env
         /\ worldCache' = g.cache
         /\ nextWorld' = nextWorld + g.made
         /\ cacheLog' = Append(cacheLog, CacheLogEntry(g))
         /\ calls' = [calls EXCEPT ![p] =
                        IF g.threw THEN wakeCatch(c, CreateWorldError)
                        ELSE [c EXCEPT !.pc = "runs.get"]]
  /\ nCalls' = nCalls + 1
  /\ UNCHANGED <<events, queued, prev, probe>>

\* await world.runs.get(runId) returns the run; events.list is issued
WakeRunsGet(p) ==
  /\ calls[p].op = "wakeUpRun" /\ calls[p].pc = "runs.get"
  /\ calls[p].runId \in DOMAIN RunTable
  /\ calls' = [calls EXCEPT ![p] =
       [@ EXCEPT !.pc = "events.list", !.run = RunTable[calls[p].runId],
                 !.trace = Append(@, Did("runs.get", "", TRUE))]]
  /\ UNCHANGED <<processEnv, worldCache, nextWorld, cacheLog, events, queued, prev,
                 nCalls, probe>>

\* await world.runs.get(runId) throws
WakeRunsGetFails(p, error) ==
  /\ calls[p].op = "wakeUpRun" /\ calls[p].pc = "runs.get"
  /\ IF calls[p].runId \in DOMAIN RunTable
     THEN error \in TransientFailures
     ELSE error \in NotFoundFailures
  /\ calls' = [calls EXCEPT ![p] =
       wakeCatch([@ EXCEPT !.trace = Append(@, Did("runs.get", "", FALSE))], error)]
  /\ UNCHANGED <<processEnv, worldCache, nextWorld, cacheLog, events, queued, prev,
                 nCalls, probe>>

\* await world.events.list(...) returns a page; the handler computes
\* pendingWaits and goes on to its first events.create, the queue call or
\* the return.
WakeEventsList(p) ==
  /\ calls[p].op = "wakeUpRun" /\ calls[p].pc = "events.list"
  /\ LET c == calls[p]
         data == eventsList(events[c.runId], PageLimit)
         c2 == [c EXCEPT !.page = data, !.logAtList = events[c.runId],
                         !.pendingWaits = pendingWaits(data, c.options),
                         !.trace = Append(@, Did("events.list", "", TRUE))]
     IN  calls' = [calls EXCEPT ![p] = afterLoopStep(c2, 1)]
  /\ UNCHANGED <<processEnv, worldCache, nextWorld, cacheLog, events, queued, prev,
                 nCalls, probe>>

WakeEventsListFails(p, error) ==
  /\ calls[p].op = "wakeUpRun" /\ calls[p].pc = "events.list"
  /\ error \in TransientFailures
  /\ calls' = [calls EXCEPT ![p] =
       wakeCatch([@ EXCEPT !.trace = Append(@, Did("events.list", "", FALSE))], error)]
  /\ UNCHANGED <<processEnv, worldCache, nextWorld, cacheLog, events, queued, prev,
                 nCalls, probe>>

\* await world.events.create(runId, { wait_completed, correlationId }) is
\* accepted by the World; the loop goes on.
WakeEventsCreate(p) ==
  /\ calls[p].op = "wakeUpRun" /\ calls[p].pc = "events.create"
  /\ LET c == calls[p]
         corr == c.pendingWaits[c.idx].correlationId
         c2 == [c EXCEPT !.trace = Append(@, Did("events.create", corr, TRUE))]
     IN  /\ events' = [events EXCEPT ![c.runId] =
                         Append(@, Event("wait_completed", corr))]
         /\ calls' = [calls EXCEPT ![p] = afterLoopStep(c2, c.idx + 1)]
  /\ UNCHANGED <<processEnv, worldCache, nextWorld, cacheLog, queued, prev, nCalls,
                 probe>>

\* faulty variant of WakeEventsCreateFails: the first refused append is
\* issued again
WakeEventsCreateFails_Retry(p, error) ==
  /\ calls[p].op = "wakeUpRun" /\ calls[p].pc = "events.create"
  /\ error \in TransientFailures
  /\ LET corr == calls[p].pendingWaits[calls[p].idx].correlationId
         c2 == [calls[p] EXCEPT !.trace = Append(@, Did("events.create", corr, FALSE))]
     IN  calls' = [calls EXCEPT ![p] =
           IF \E i \in 1..Len(calls[p].trace) : ~calls[p].trace[i].ok
           THEN wakeCatch(c2, error)
           ELSE c2]
  /\ UNCHANGED <<processEnv, worldCache, nextWorld, cacheLog, events, queued, prev,
                 nCalls, probe>>

\* await world.events.create(...) throws
WakeEventsCreateFails(p, error) ==
  /\ calls[p].op = "wakeUpRun" /\ calls[p].pc = "events.create"
  /\ error \in TransientFailures
  /\ LET corr == calls[p].pendingWaits[calls[p].idx].correlationId
     IN  calls' = [calls EXCEPT ![p] =
           wakeCatch([@ EXCEPT !.trace = Append(@, Did("events.create", corr, FALSE))],
                     error)]
  /\ UNCHANGED <<processEnv, worldCache, nextWorld, cacheLog, events, queued, prev,
                 nCalls, probe>>

\* await world.queue(...) is accepted; the handler returns stoppedCount
WakeQueue(p) ==
  /\ calls[p].op = "wakeUpRun" /\ calls[p].pc = "queue"
  /\ LET c == calls[p]
         c2 == [c EXCEPT !.trace = Append(@, Did("queue", "", TRUE))]
     IN  /\ queued' = Append(queued, queueMessage(c.run, c.runId))
         /\ calls' = [calls EXCEPT ![p] =
              Returned(c2, createResponse(
                JSObject(<< <<"stoppedCount", JSNumber(Len(c.pendingWaits))>> >>)))]
  /\ UNCHANGED <<processEnv, worldCache, nextWorld, cacheLog, events, prev, nCalls,
                 probe>>

WakeQueueFails(p, error) ==
  /\ calls[p].op = "wakeUpRun" /\ calls[p].pc = "queue"
  /\ error \in TransientFailures
  /\ calls' = [calls EXCEPT ![p] =
       wakeCatch([@ EXCEPT !.trace = Append(@, Did("queue", "", FALSE))], error)]
  /\ UNCHANGED <<processEnv, worldCache, nextWorld, cacheLog, events, queued, prev,
                 nCalls, probe>>

\* the result reaches the caller; the request slot is free again
Return(p) ==
  /\ calls[p].pc = "done"
  /\ prev' = calls[p]
  /\ calls' = [calls EXCEPT ![p] = IdleCall]
  /\ UNCHANGED <<processEnv, worldCache, nextWorld, cacheLog, events, queued, nCalls,
                 probe>>

-----------------------------------------------------------------------------
(* Hook Resume Coordinator: resumeHook *)

\* resumeHook(token, payload) of @workflow/core/runtime: the hook a token
\* names and the run that owns it
HookTable ==
  [t \in {"tok1", "tok2"} |->
     IF t = "tok1" THEN [hookId |-> "hook1", runId |-> "r1"]
     ELSE [hookId |-> "hook2", runId |-> "r2"]]

\* what the runtime raises for an invalid, expired or already resumed token
HookFailures == { Failure("Error", NoStatus, "hook not found") }

resumeCatch(c, error) ==
  Returned(c, createServerActionError(error, "resumeHook", [token |-> c.runId]))

\* faulty variant of ResumeStart: the hook is delivered although
\* getWorldFromEnv threw
ResumeStart_DeliverAnyway(p, envMap, token, ok) ==
  /\ calls[p].pc = "idle"
  /\ nCalls < MaxCalls
  /\ LET g == getWorldFromEnv(envMap, ok)
         c == [IdleCall EXCEPT !.op = "resumeHook", !.runId = token, !.world = g.world,
                               !.key = g.key]
     IN  /\ processEnv' = g.env
         /\ worldCache' = g.cache
         /\ nextWorld' = nextWorld + g.made
         /\ cacheLog' = Append(cacheLog, CacheLogEntry(g))
         /\ calls' = [calls EXCEPT ![p] = [c EXCEPT !.pc = "resumeHookRuntime"]]
  /\ nCalls' = nCalls + 1
  /\ UNCHANGED <<events, queued, prev, probe>>

\* resumeHook(worldEnv, token, payload) up to its await:
\* getWorldFromEnv({ ...worldEnv }), then resumeHookRuntime is issued.
\* The token is kept in the call's runId field.
ResumeStart(p, envMap, token, ok) ==
  /\ calls[p].pc = "idle"
  /\ nCalls < MaxCalls
  /\ LET g == getWorldFromEnv(envMap, ok)
         c == [IdleCall EXCEPT !.op = "resumeHook", !.runId = token, !.world = g.world,
                               !.key = g.key]
     IN  /\ processEnv' = g.env
         /\ worldCache' = g.cache
         /\ nextWorld' = nextWorld + g.made
         /\ cacheLog' = Append(cacheLog, CacheLogEntry(g))
         /\ calls' = [calls EXCEPT ![p] =
                        IF g.threw THEN resumeCatch(c, CreateWorldError)
                        ELSE [c EXCEPT !.pc = "resumeHookRuntime"]]
  /\ nCalls' = nCalls + 1
  /\ UNCHANGED <<events, queued, prev, probe>>

\* await resumeHookRuntime(token, payload) returns the hook
ResumeDelivered(p) ==
  /\ calls[p].op = "resumeHook" /\ calls[p].pc = "resumeHookRuntime"
  /\ calls[p].runId \in DOMAIN HookTable
  /\ LET hook == HookTable[calls[p].runId]
         c2 == [calls[p] EXCEPT !.trace = Append(@, Did("resumeHookRuntime", "", TRUE))]
     IN  calls' = [calls EXCEPT ![p] =
           Returned(c2, createResponse(
             JSObject(<< <<"hookId", JSString(hook.hookId)>>,
                         <<"runId", JSString(hook.runId)>> >>)))]
  /\ UNCHANGED <<processEnv, worldCache, nextWorld, cacheLog, events, queued, prev,
                 nCalls, probe>>

\* await resumeHookRuntime(token, payload) throws
ResumeFails(p, error) ==
  /\ calls[p].op = "resumeHook" /\ calls[p].pc = "resumeHookRuntime"
  /\ error \in HookFailures
  /\ calls' = [calls EXCEPT ![p] =
       resumeCatch([@ EXCEPT !.trace = Append(@, Did("resumeHookRuntime", "", FALSE))],
                   error)]
  /\ UNCHANGED <<processEnv, worldCache, nextWorld, cacheLog, events, queued, prev,
                 nCalls, probe>>

-----------------------------------------------------------------------------
(* Specification of the wake-up reconciler: requests handled one at a time *)

EventAlphabet ==
  { Event("wait_created", "A"), Event("wait_created", "B"),
    Event("wait_completed", "A"), Event("wait_completed", "B"),
    Event("wait_created", Undefined) }

\* A log the runtime can have written: no event twice, a wait_completed
\* only after the wait_created it answers.
WellFormedLog(log) ==
  /\ \A i, j \in 1..Len(log) : i # j => log[i] # log[j]
  /\ \A i \in 1..Len(log) :
       log[i].eventType = "wait_completed" =>
         \E j \in 1..(i - 1) : log[j] = Event("wait_created", log[i].correlationId)

InitLogs ==
  {log \in UNION {[1..n -> EventAlphabet] : n \in 0..MaxEvents} : WellFormedLog(log)}

\* The web package passes no EnvMap and here the process sets no variable.
EmptyEnvMap == <<>>

WakeRunIds == {"r1", "r404"}

WakeOptions == {NoOptions, Options(<<>>), Options(<<"A">>)}

NoProbe == [spec |-> ""]

InitProcess ==
  /\ processEnv = [k \in EnvKeys |-> Undefined]
  /\ worldCache = <<>>
  /\ nextWorld = 0
  /\ cacheLog = <<>>
  /\ queued = <<>>
  /\ calls = [p \in Slots |-> IdleCall]
  /\ prev = IdleCall
  /\ nCalls = 0

Init ==
  /\ InitProcess
  /\ \E log \in InitLogs : events = [r \in DOMAIN RunTable |-> IF r = "r1" THEN log ELSE <<>>]
  /\ probe = NoProbe

WakeSteps(p) ==
  \/ WakeRunsGet(p)
  \/ \E error \in NotFoundFailures \cup TransientFailures : WakeRunsGetFails(p, error)
  \/ WakeEventsList(p)
  \/ \E error \in TransientFailures : WakeEventsListFails(p, error)
  \/ WakeEventsCreate(p)
  \/ \E error \in TransientFailures : WakeEventsCreateFails(p, error)
  \/ WakeQueue(p)
  \/ \E error \in TransientFailures : WakeQueueFails(p, error)

Next ==
  \/ \E runId \in WakeRunIds, options \in WakeOptions, ok \in BOOLEAN :
       WakeStart(1, EmptyEnvMap, runId, options, ok)
  \/ WakeSteps(1)
  \/ Return(1)

Spec == Init /\ [][Next]_vars

-----------------------------------------------------------------------------
(* What a call did, read off its trace *)

RECURSIVE CountIn(_, _)
CountIn(s, keep) ==
  IF s = <<>> THEN 0
  ELSE (IF Head(s) \in keep THEN 1 ELSE 0) + CountIn(Tail(s), keep)

\* the events.create calls of c the World accepted, for correlation id corr
AppendsFor(c, corr) == CountIn(c.trace, {Did("events.create", corr, TRUE)})

\* all events.create calls c issued (accepted, refused or still in flight)
CreatesIssued(c) ==
  CountIn(c.trace, {e \in SeqToSet(c.trace) : e.call = "events.create"})
    + (IF c.pc = "events.create" THEN 1 ELSE 0)

\* all queue calls c issued
DispatchesIssued(c) ==
  CountIn(c.trace, {e \in SeqToSet(c.trace) : e.call = "queue"})
    + (IF c.pc = "queue" THEN 1 ELSE 0)

Listed(c) == c.op = "wakeUpRun" /\ Did("events.list", "", TRUE) \in SeqToSet(c.trace)

\* no call on the World failed and the World was constructed
NothingFailed(c) == \A i \in 1..Len(c.trace) : c.trace[i].ok

Succeeded(c) == c.pc = "done" /\ c.result.success

StoppedCount(c) == DataField(c.result, "stoppedCount").v

\* Section 3 of the specification: the positions of the pending waits of a
\* log, the wait_created events no wait_completed event shares its
\* correlationId with.
PendingWaitPairs(log) ==
  {i \in 1..Len(log) :
     /\ log[i].eventType = "wait_created"
     /\ ~\E j \in 1..Len(log) :
          /\ log[j].eventType = "wait_completed"
          /\ log[j].correlationId = log[i].correlationId}

PendingCorrs(log) == {log[i].correlationId : i \in PendingWaitPairs(log)}

AllCorrs == {"A", "B", "C", Undefined, ""}

-----------------------------------------------------------------------------
(* C1 *)

\* the calls C1 is about: wakeUpRun without a filter has returned, the
\* run's events all fit in the listed page and all carry a correlationId,
\* and no call on the World failed
C1_Case(c) ==
  /\ Listed(c) /\ c.pc = "done" /\ NothingFailed(c)
  /\ ~c.options.has
  /\ Len(c.logAtList) <= PageLimit
  /\ \A i \in 1..Len(c.logAtList) : Truthy(c.logAtList[i].correlationId)

C1_Appends(c) ==
  \A corr \in AllCorrs :
     AppendsFor(c, corr) =
       Cardinality({i \in PendingWaitPairs(c.logAtList) :
                      c.logAtList[i].correlationId = corr})

-----------------------------------------------------------------------------
(* C3 *)

\* the waits of a call's pendingWaits that carry a correlationId
WithCorrelationId(pending) ==
  CountIn(pending, {e \in SeqToSet(pending) : Truthy(e.correlationId)})

AcceptedAppends(c) ==
  CountIn(c.trace, {e \in SeqToSet(c.trace) : e.call = "events.create" /\ e.ok})

\* C3: in every call, once the dispatch (queue) call is issued every
\* synthesized wait_completed append has been accepted by the World, and no
\* append is issued after the dispatch call.
C3_AppendsBeforeDispatch ==
  \A p \in Slots :
     LET c == calls[p]
     IN  /\ DispatchesIssued(c) > 0 =>
              /\ AcceptedAppends(c) = WithCorrelationId(c.pendingWaits)
              /\ c.pc # "events.create"
         /\ \A i, j \in 1..Len(c.trace) :
              c.trace[i].call = "queue" /\ c.trace[j].call = "events.create" => j < i

C3_Witness ==
  /\ calls[1].pc = "queue"
  /\ AcceptedAppends(calls[1]) = 2

-----------------------------------------------------------------------------
(* C4 *)

\* C4: when the run has no pending wait, wakeUpRun issues no event append
\* and no dispatch call and returns success with stoppedCount 0.
C4_NoPendingNoWrites ==
  \A p \in Slots :
     LET c == calls[p]
     IN  Listed(c) /\ PendingWaitPairs(c.logAtList) = {} =>
           /\ CreatesIssued(c) = 0
           /\ DispatchesIssued(c) = 0
           /\ c.pc = "done" /\ Succeeded(c) /\ StoppedCount(c) = 0

-----------------------------------------------------------------------------
(* C5 *)

\* the correlation ids of the pending waits that the target list names
TargetedPending(c) == PendingCorrs(c.logAtList) \cap SeqToSet(c.options.correlationIds)

\* C5: given a non-empty target list, wakeUpRun synthesizes wait_completed
\* only for pending waits the list names; when the list names only completed
\* or unknown correlation ids it appends nothing, dispatches nothing and
\* returns stoppedCount 0.
C5_OnlyTargets ==
  \A p \in Slots :
     LET c == calls[p]
     IN  Listed(c) /\ hasTargets(c.options) =>
           /\ \A i \in 1..Len(c.trace) :
                c.trace[i].call = "events.create" => c.trace[i].corr \in TargetedPending(c)
           /\ TargetedPending(c) = {} =>
                /\ CreatesIssued(c) = 0
                /\ DispatchesIssued(c) = 0
                /\ c.pc = "done" /\ Succeeded(c) /\ StoppedCount(c) = 0

-----------------------------------------------------------------------------
(* C6 *)

NotFoundMessage == <<"The requested resource was not found.">>

\* C6: when the run does not exist, the wakeUpRun call makes no call on the
\* World but runs.get, which raises not-found, and returns a failure whose
\* error has the World ('API') layer, status 404 and the not-found message.
C6_RunNotFound ==
  \A p \in Slots :
     LET c == calls[p]
     IN  c.op = "wakeUpRun" /\ c.runId \notin DOMAIN RunTable =>
           /\ \A i \in 1..Len(c.trace) : c.trace[i] = Did("runs.get", "", FALSE)
           /\ c.pc \in {"runs.get", "done"}
           /\ c.page = <<>> /\ c.pendingWaits = <<>>
           /\ c.pc = "done" /\ c.trace # <<>> =>
                /\ ~c.result.success
                /\ c.result.error.layer = "API"
                /\ c.result.error.request.status = 404
                /\ c.result.error.message = NotFoundMessage

C6_Witness ==
  /\ calls[1].op = "wakeUpRun" /\ calls[1].pc = "done"
  /\ calls[1].runId \notin DOMAIN RunTable
  /\ calls[1].trace = <<Did("runs.get", "", FALSE)>>
  /\ calls[1].result.error.request.status = 404
  /\ events["r1"] # <<>>

-----------------------------------------------------------------------------
(* C2: concurrent requests.  The host handles requests concurrently; a    *)
(* handler yields at every await, so the steps of two wakeUpRun calls     *)
(* interleave there.                                                       *)

\* runs whose events all carry a correlationId and fit in one page together
\* with the wait_completed events of their pending waits
RaceLogs ==
  {log \in InitLogs :
     /\ Len(log) + Cardinality(PendingWaitPairs(log)) <= PageLimit
     /\ \A i \in 1..Len(log) : Truthy(log[i].correlationId)}

InitRace ==
  /\ InitProcess
  /\ \E log \in RaceLogs : events = [r \in DOMAIN RunTable |-> IF r = "r1" THEN log ELSE <<>>]
  /\ probe = NoProbe

NextRace ==
  \E p \in Slots :
     \/ \E options \in WakeOptions, ok \in BOOLEAN :
          WakeStart(p, EmptyEnvMap, "r1", options, ok)
     \/ WakeSteps(p)
     \/ Return(p)

SpecRace == InitRace /\ [][NextRace]_vars

\* the World accepted c's queue call
Dispatched(c) == Did("queue", "", TRUE) \in SeqToSet(c.trace)

\* C2: under any interleaving of wakeUpRun calls on one run, each pending
\* wait receives at most one synthesized wait_completed event, and the run
\* is dispatched once for a set of pending waits: no two calls dispatch it
\* for the same pending wait.
C2_ResumedOnce ==
  /\ \A corr \in AllCorrs :
       CountIn(events["r1"], {Event("wait_completed", corr)}) <= 1
  /\ \A p, q \in Slots :
       p # q /\ Dispatched(calls[p]) /\ Dispatched(calls[q]) =>
         SeqToSet(calls[p].pendingWaits) \cap SeqToSet(calls[q].pendingWaits) = {}

-----------------------------------------------------------------------------
(* Specification of the instance cache: concurrent requests that differ in *)
(* the caller-supplied EnvMap, over several process environments           *)

EnvWith(entries) == ApplyEnv([k \in EnvKeys |-> Undefined], entries)

\* process.env when the server starts
InitEnvs ==
  { EnvWith(<<>>),
    EnvWith(<< <<"WORKFLOW_TARGET_WORLD", "local">> >>),
    [EnvWith(<<>>) EXCEPT !["PORT"] = ""] }

\* the EnvMaps callers pass
CacheEnvMaps ==
  { <<>>,
    << <<"WORKFLOW_TARGET_WORLD", "local">> >>,
    << <<"PORT", "3000">>, <<"WORKFLOW_TARGET_WORLD", "local">> >>,
    << <<"WORKFLOW_TARGET_WORLD", "local">>, <<"PORT", "3000">> >>,
    << <<"WORKFLOW_TARGET_WORLD", "local">>, <<"PORT", "">> >>,
    << <<"WORKFLOW_TARGET_WORLD", "local">>, <<"PORT", Undefined>> >> }

InitCache ==
  /\ processEnv \in InitEnvs
  /\ worldCache = <<>>
  /\ nextWorld = 0
  /\ cacheLog = <<>>
  /\ queued = <<>>
  /\ calls = [p \in Slots |-> IdleCall]
  /\ prev = IdleCall
  /\ nCalls = 0
  /\ events = [r \in DOMAIN RunTable |-> <<>>]
  /\ probe = NoProbe

NextCache ==
  \E p \in Slots :
     \/ \E envMap \in CacheEnvMaps, ok \in BOOLEAN : ResumeStart(p, envMap, "tok1", ok)
     \/ ResumeDelivered(p)
     \/ \E error \in HookFailures : ResumeFails(p, error)
     \/ Return(p)

SpecCache == InitCache /\ [][NextCache]_vars

-----------------------------------------------------------------------------
(* C7 *)

\* the getWorldFromEnv calls that returned a World
Obtained == {i \in 1..Len(cacheLog) : cacheLog[i].outcome # "failed"}

\* C7: a fingerprint obtained before yields the very same World instance
\* as the first time, the cache still holds that instance under it, and two
\* different fingerprints never yield the same instance.
C7_SameHandle ==
  /\ \A i, j \in Obtained :
       (cacheLog[i].key = cacheLog[j].key) <=> (cacheLog[i].world = cacheLog[j].world)
  /\ \A i \in Obtained :
       /\ cacheLog[i].key \in DOMAIN worldCache
       /\ worldCache[cacheLog[i].key] = cacheLog[i].world

\* one fingerprint obtained twice, by two calls that have returned
C7_Witness ==
  /\ \E i, j \in Obtained : i < j /\ cacheLog[i].key = cacheLog[j].key
  /\ prev.pc = "done"
  /\ \E p \in Slots : calls[p].pc = "done"

-----------------------------------------------------------------------------
(* C8 *)

\* C8: under any interleaving, createWorld() is never reached for a
\* fingerprint the cache holds a World for: of the calls that resolve one
\* fingerprint, those before the first successful construction all failed
\* to construct and those after it are all cache hits, so concurrent misses
\* end in exactly one successful construction.
C8_ConstructedOnce ==
  \A i, j \in 1..Len(cacheLog) :
     i < j /\ cacheLog[i].key = cacheLog[j].key =>
       /\ cacheLog[i].outcome \in {"constructed", "hit"} => cacheLog[j].outcome = "hit"
       /\ cacheLog[j].outcome = "constructed" => cacheLog[i].outcome = "failed"

\* two requests in flight at once that resolved the same fingerprint: the
\* first constructed the World, the second did not
C8_Witness ==
  /\ \A p \in Slots : calls[p].pc = "resumeHookRuntime"
  /\ Len(cacheLog) >= 2
  /\ cacheLog[1].key = cacheLog[2].key
  /\ cacheLog[1].outcome = "constructed"
  /\ cacheLog[2].outcome = "hit"

-----------------------------------------------------------------------------
(* C9 *)

\* a getWorldFromEnv call of this step reached createWorld() and it threw
ConstructionFailedNow ==
  /\ Len(cacheLog') = Len(cacheLog) + 1
  /\ cacheLog'[Len(cacheLog')].outcome = "failed"

\* after a failed construction the next call with that fingerprint does not
\* find a cached World: it attempts the construction again
RetriesAfterFailure ==
  \A i, j \in 1..Len(cacheLog) :
     /\ i < j /\ cacheLog[i].key = cacheLog[j].key /\ cacheLog[i].outcome = "failed"
     /\ \A k \in (i + 1)..(j - 1) : cacheLog[k].key # cacheLog[i].key
     => cacheLog[j].outcome \in {"constructed", "failed"}

\* C9: a failed construction stores nothing in the cache (the cache is as
\* before the call), the calling operation returns a failure result, and the
\* next call with that fingerprint attempts the construction again.
C9_FailureNotCached ==
  [][ /\ ConstructionFailedNow =>
           /\ worldCache' = worldCache
           /\ \E p \in Slots :
                /\ calls[p].pc = "idle"
                /\ calls'[p].pc = "done"
                /\ ~calls'[p].result.success
      /\ RetriesAfterFailure' ]_vars

\* a construction failed and the next call with the fingerprint constructed
C9_Witness ==
  \E i, j \in 1..Len(cacheLog) :
     /\ i < j /\ cacheLog[i].key = cacheLog[j].key
     /\ cacheLog[i].outcome = "failed" /\ cacheLog[j].outcome = "constructed"
     /\ cacheLog[i].key \in DOMAIN worldCache

-----------------------------------------------------------------------------
(* Specification of the config resolver: getWorldFromEnv called with       *)
(* caller-supplied EnvMaps, over several process environments              *)

\* history: no call came before
NoPrior == [envMap |-> <<>>, key |-> <<>>, world |-> NoWorld, outcome |-> ""]

InitResolve ==
  /\ processEnv \in InitEnvs
  /\ worldCache = <<>>
  /\ nextWorld = 0
  /\ cacheLog = <<>>
  /\ queued = <<>>
  /\ calls = [p \in Slots |-> IdleCall]
  /\ prev = IdleCall
  /\ nCalls = 0
  /\ events = [r \in DOMAIN RunTable |-> <<>>]
  /\ probe = [spec |-> "resolve", envMap |-> <<>>, before |-> processEnv,
              key |-> <<>>, world |-> NoWorld, outcome |-> "", prior |-> NoPrior,
              config |-> <<>>]

\* one call getWorldFromEnv(envMap); the probe keeps the EnvMap passed, the
\* process environment the call found and what the call resolved and got,
\* and the same of the call before it; what getServerConfig() returned
\* before the call is forgotten
Resolve(envMap, ok) ==
  /\ probe.spec = "resolve"
  /\ nCalls < MaxCalls
  /\ LET g == getWorldFromEnv(envMap, ok)
     IN  /\ processEnv' = g.env
         /\ worldCache' = g.cache
         /\ nextWorld' = nextWorld + g.made
         /\ cacheLog' = Append(cacheLog, CacheLogEntry(g))
         /\ probe' = [spec |-> "resolve", envMap |-> envMap, before |-> processEnv,
                      key |-> g.key, world |-> g.world, outcome |-> g.outcome,
                      prior |-> [envMap |-> probe.envMap, key |-> probe.key,
                                 world |-> probe.world, outcome |-> probe.outcome],
                      config |-> <<>>]
  /\ nCalls' = nCalls + 1
  /\ UNCHANGED <<events, queued, calls, prev>>

NextResolve == \E envMap \in CacheEnvMaps, ok \in BOOLEAN : Resolve(envMap, ok)

SpecResolve == InitResolve /\ [][NextResolve]_vars

-----------------------------------------------------------------------------
(* C12 *)

\* some process-wide named setting is present and non-empty
ProcessConfigured(env) == \E i \in 1..Len(ServerKeys) : Truthy(env[ServerKeys[i]])

\* the process-wide set: each named setting with its value in env
ProcessWideSet(env) == [i \in 1..Len(ServerKeys) |-> <<ServerKeys[i], env[ServerKeys[i]]>>]

\* C12: in every getWorldFromEnv call, when at least one process-wide named
\* setting is present and non-empty the fingerprint is that of the
\* process-wide set whatever EnvMap the caller passes; when none is, it is
\* the fingerprint of the caller's EnvMap.  The World obtained is the one
\* the cache holds under that fingerprint.
C12_Precedence ==
  nCalls > 0 =>
    /\ ProcessConfigured(probe.before) =>
         probe.key = cacheKey(ProcessWideSet(probe.before))
    /\ ~ProcessConfigured(probe.before) => probe.key = cacheKey(probe.envMap)
    /\ probe.outcome # "failed" => worldCache[probe.key] = probe.world

\* the process sets WORKFLOW_TARGET_WORLD; a caller that passes PORT as well
\* gets the fingerprint of the process-wide set and the World an earlier
\* caller, which passed nothing, got
C12_Witness ==
  /\ Len(cacheLog) = 2
  /\ probe.before["WORKFLOW_TARGET_WORLD"] = "local"
  /\ probe.envMap = << <<"PORT", "3000">>, <<"WORKFLOW_TARGET_WORLD", "local">> >>
  /\ probe.key = << <<"WORKFLOW_TARGET_WORLD", "local">> >>
  /\ probe.key # cacheKey(probe.envMap)
  /\ probe.outcome = "hit" /\ probe.world = cacheLog[1].world
  /\ processEnv["PORT"] = Undefined

-----------------------------------------------------------------------------
(* Specification of the fingerprint: the cache key of two EnvMaps *)

KeySample ==
  {"PORT", "WORKFLOW_LOCAL_DATA_DIR", "WORKFLOW_POSTGRES_URL", "WORKFLOW_TARGET_WORLD"}

ValueSample == {Undefined, "", "x"}

DistinctKeys(m) == \A i, j \in 1..Len(m) : i # j => m[i][1] # m[j][1]

\* every EnvMap of at most MaxKeys entries, in every insertion order
EnvMaps ==
  {m \in UNION {[1..n -> KeySample \X ValueSample] : n \in 0..MaxKeys} : DistinctKeys(m)}

\* the same key/value pairs, inserted in another order
Reordered(m) == {[i \in 1..Len(m) |-> m[f[i]]] : f \in Permutations(1..Len(m))}

\* marks an entry that the second EnvMap does not have
Dropped == "<dropped>"

RECURSIVE Reblank(_, _)
\* m with each entry whose value is undefined or '' given the value f names
\* for it (undefined or ''), or left out
Reblank(m, f) ==
  IF m = <<>> THEN <<>>
  ELSE LET rest == Reblank(Tail(m), [i \in 1..(Len(m) - 1) |-> f[i + 1]])
       IN  IF Truthy(Head(m)[2]) THEN <<Head(m)>> \o rest
           ELSE IF f[1] = Dropped THEN rest
           ELSE << <<Head(m)[1], f[1]>> >> \o rest

\* the EnvMaps that differ from m only in keys whose value is undefined or ''
Blanked(m) == {Reblank(m, f) : f \in [1..Len(m) -> {Undefined, "", Dropped}]}

InitKey ==
  /\ InitProcess
  /\ events = [r \in DOMAIN RunTable |-> <<>>]
  /\ \E m1 \in EnvMaps : \E m2 \in Reordered(m1) \cup Blanked(m1) :
       probe = [spec |-> "key", m1 |-> m1, m2 |-> m2, k1 |-> <<>>, k2 |-> <<>>,
                done |-> FALSE]

\* const cacheKey = JSON.stringify(Object.fromEntries(sortedEntries)), for both
KeyResolve ==
  /\ probe.spec = "key" /\ ~probe.done
  /\ probe' = [probe EXCEPT !.k1 = cacheKey(probe.m1), !.k2 = cacheKey(probe.m2),
                            !.done = TRUE]
  /\ UNCHANGED <<processEnv, worldCache, nextWorld, cacheLog, events, queued, calls,
                 prev, nCalls>>

NextKey == KeyResolve

SpecKey == InitKey /\ [][NextKey]_vars

\* C10: two effective mappings with the same key/value pairs, inserted in
\* any order, have the same fingerprint.
C10_OrderIndependent ==
  probe.done /\ SeqToSet(probe.m1) = SeqToSet(probe.m2) => probe.k1 = probe.k2

C10_Witness ==
  /\ probe.done
  /\ Len(probe.m1) = 3 /\ probe.m1 # probe.m2
  /\ probe.m1[1][1] = "WORKFLOW_TARGET_WORLD" /\ probe.m2[3][1] = "WORKFLOW_TARGET_WORLD"
  /\ Len(probe.k1) = 3 /\ probe.k1 = probe.k2

-----------------------------------------------------------------------------
(* C11 *)

\* the entries of an EnvMap whose value is neither undefined nor ''
Present(m) == {e \in SeqToSet(m) : Truthy(e[2])}

\* C11: two effective mappings that differ only in keys whose value is
\* undefined or the empty string have the same fingerprint.
C11_AbsentEmptySame ==
  probe.done /\ Present(probe.m1) = Present(probe.m2) => probe.k1 = probe.k2

-----------------------------------------------------------------------------
(* Specification of the error classifier: two failures classified by      *)
(* createServerActionError                                                 *)

\* WorkflowAPIError, WorkflowRunNotFoundError, and any other thrown value
FailureKinds == {"WorkflowAPIError", "WorkflowRunNotFoundError", "Error"}

\* the status a failure carries: none, or an HTTP status
StatusSample == {NoStatus, 400, 401, 403, 404, 500}

MessageSample ==
  {"", "boom", "Network request failed", "fetch failed", "password=hunter2"}

FailureSample ==
  {Failure(kind, status, message) :
     kind \in FailureKinds, status \in StatusSample, message \in MessageSample}

InitClassify ==
  /\ InitProcess
  /\ events = [r \in DOMAIN RunTable |-> <<>>]
  /\ \E e1 \in FailureSample, e2 \in FailureSample :
       probe = [spec |-> "classify", e1 |-> e1, e2 |-> e2, r1 |-> NoResult,
                r2 |-> NoResult, done |-> FALSE]

\* catch (error) { return createServerActionError(error, operation, params) }
Classify ==
  /\ probe.spec = "classify" /\ ~probe.done
  /\ probe' = [probe EXCEPT
                 !.r1 = createServerActionError(probe.e1, "world.runs.get", [runId |-> "r1"]),
                 !.r2 = createServerActionError(probe.e2, "world.runs.get", [runId |-> "r1"]),
                 !.done = TRUE]
  /\ UNCHANGED <<processEnv, worldCache, nextWorld, cacheLog, events, queued, calls,
                 prev, nCalls>>

NextClassify == Classify

SpecClassify == InitClassify /\ [][NextClassify]_vars

\* the failures and the error records of a classifier probe
Classified == {<<probe.e1, probe.r1>>, <<probe.e2, probe.r2>>}

ErrorPrefix == "Error creating response: "

-----------------------------------------------------------------------------
(* C13 *)

\* C13: a WorkflowAPIError with status 404 and a WorkflowRunNotFoundError
\* are both classified to an error record with the World ('API') layer,
\* request status 404 and the 'requested resource was not found' message.
C13_NotFoundRecord ==
  probe.done =>
    \A c \in Classified :
       \/ c[1].kind = "WorkflowAPIError" /\ c[1].status = 404
       \/ c[1].kind = "WorkflowRunNotFoundError"
       => /\ ~c[2].success
          /\ c[2].error.layer = "API"
          /\ c[2].error.request.status = 404
          /\ c[2].error.message = NotFoundMessage

C13_Witness ==
  /\ probe.done
  /\ probe.e1 = Failure("WorkflowAPIError", 404, "boom")
  /\ probe.e2 = Failure("WorkflowRunNotFoundError", NoStatus, "password=hunter2")
  /\ probe.r1.error.message = NotFoundMessage
  /\ probe.r2.error.request.status = 404
  /\ probe.r1.error.layer = probe.r2.error.layer

-----------------------------------------------------------------------------
(* C14 *)

\* C14 as claimed: every failure that carries no status code is classified
\* with layer 'server', a WorkflowAPIError without a status included.
C14_AsClaimed ==
  probe.done =>
    \A c \in Classified : c[1].status = NoStatus => c[2].error.layer = "server"

\* C14 amended: a failure that carries no status code is classified with
\* layer 'server' exactly when it is neither a WorkflowAPIError nor a
\* WorkflowRunNotFoundError; a WorkflowAPIError without a status keeps the
\* World ('API') layer, has no request status and gets the 'Error creating
\* response: ' message.
C14_NoStatusLayer ==
  probe.done =>
    \A c \in Classified :
       c[1].status = NoStatus =>
         /\ c[2].error.layer = "server"
              <=> c[1].kind \notin {"WorkflowAPIError", "WorkflowRunNotFoundError"}
         /\ c[1].kind = "WorkflowAPIError" =>
              /\ c[2].error.layer = "API"
              /\ c[2].error.request.status = NoStatus
              /\ c[2].error.message = <<ErrorPrefix, c[1].message>>

C14_Witness ==
  /\ probe.done
  /\ probe.e1 = Failure("WorkflowAPIError", NoStatus, "fetch failed")
  /\ probe.r1.error.layer = "API"
  /\ probe.e2 = Failure("Error", NoStatus, "boom")
  /\ probe.r2.error.layer = "server"

-----------------------------------------------------------------------------
(* C15 *)

\* C15: an error record has the World ('API') layer only when the failure
\* is a WorkflowAPIError or a WorkflowRunNotFoundError; every other failure
\* gets layer 'server', request status 500 and the message 'Error creating
\* response: ' followed by the raw message.
C15_LayerOnlyForWorld ==
  probe.done =>
    \A c \in Classified :
       /\ c[2].error.layer \in {"API", "server"}
       /\ c[2].error.layer = "API" =>
            c[1].kind \in {"WorkflowAPIError", "WorkflowRunNotFoundError"}
       /\ c[1].kind \notin {"WorkflowAPIError", "WorkflowRunNotFoundError"} =>
            /\ c[2].error.layer = "server"
            /\ c[2].error.request.status = 500
            /\ c[2].error.message = <<ErrorPrefix, c[1].message>>

\* a plain Error that carries status 404 is still a server failure
C15_Witness ==
  /\ probe.done
  /\ probe.e1 = Failure("Error", 404, "boom")
  /\ probe.r1.error.layer = "server"
  /\ probe.r1.error.request.status = 500
  /\ probe.r1.error.message = <<ErrorPrefix, "boom">>

-----------------------------------------------------------------------------
(* C16 *)

GenericStatuses == {401, 403, 404, 500}

\* the status the classifier derives the message from
MessageStatus(e) ==
  IF e.kind = "WorkflowAPIError" THEN e.status
  ELSE IF e.kind = "WorkflowRunNotFoundError" THEN 404
  ELSE NoStatus

\* two failures with the same status 401, 403, 404 or 500 get one message
SameGenericMessage ==
  MessageStatus(probe.e1) = MessageStatus(probe.e2)
    /\ MessageStatus(probe.e1) \in GenericStatuses
  => probe.r1.error.message = probe.r2.error.message

\* C16 as claimed: for status 401, 403, 404 or 500 the message does not
\* depend on the raw message; for every other status the raw message is the
\* message.
C16_AsClaimed ==
  probe.done =>
    /\ SameGenericMessage
    /\ \A c \in Classified :
         MessageStatus(c[1]) \notin GenericStatuses \cup {NoStatus} =>
           c[2].error.message = <<c[1].message>>

\* C16 amended: as claimed for 401, 403, 404 and 500; for every other
\* status the message is the raw message, except that a raw message
\* mentioning 'Network' or 'fetch' is replaced by the fixed network text
\* and an empty one by 'An unexpected error occurred'.
C16_GenericMessages ==
  probe.done =>
    /\ SameGenericMessage
    /\ \A c \in Classified :
         MessageStatus(c[1]) \notin GenericStatuses \cup {NoStatus} =>
           c[2].error.message =
             IF MentionsNetwork(c[1].message)
             THEN <<"Network error. Please check your connection and try again.">>
             ELSE IF c[1].message = "" THEN <<"An unexpected error occurred">>
             ELSE <<c[1].message>>

\* two status-500 failures with different raw messages, one message
C16_Witness ==
  /\ probe.done
  /\ probe.e1 = Failure("WorkflowAPIError", 500, "password=hunter2")
  /\ probe.e2 = Failure("WorkflowAPIError", 500, "boom")
  /\ probe.r1.error.message = probe.r2.error.message
  /\ probe.r1.error.cause # probe.r2.error.cause

-----------------------------------------------------------------------------
(* The other server actions: fetchRun, reenqueueRun, readStreamServerAction *)

\* what a call on the World may raise: a WorkflowAPIError with or without a
\* status, or any other Error
WorldFailures ==
  TransientFailures \cup
    { Failure("WorkflowAPIError", NoStatus, "fetch failed"),
      Failure("Error", NoStatus, "boom") }

\* throw new Error('Failed to hydrate data', { cause: error })
HydrateError == Failure("Error", NoStatus, "Failed to hydrate data")

\* the TypeError JSON.stringify raises for a value it cannot serialize
StringifyError == Failure("Error", NoStatus, "Do not know how to serialize a BigInt")

\* what pipeThrough raises for a stream that is locked
PipeError == Failure("Error", NoStatus, "ReadableStream is locked")

\* a run of the World as the JavaScript object runs.get returns
RunObject(run) ==
  JSObject(<< <<"runId", JSString(run.runId)>>,
              <<"workflowName", JSString(run.workflowName)>>,
              <<"deploymentId", JSString(run.deploymentId)>>,
              <<"input", JSUndefined>> >>)

\* hydrate(data): toJSONCompatible, then hydrateResourceIO, which returns
\* the data (no resource reference in it) or throws
hydrate(data, hydrateOk) ==
  IF hydrateOk THEN [threw |-> FALSE, data |-> toJSONCompatible(data)]
  ELSE [threw |-> TRUE, data |-> JSUndefined]

\* catch of fetchRun: createServerActionError(error, 'world.runs.get', {...})
fetchCatch(c, error) ==
  Returned(c, createServerActionError(error, "world.runs.get",
                [runId |-> c.runId, resolveData |-> "all"]))

\* fetchRun(worldEnv, runId) up to its await
FetchStart(p, envMap, runId, ok) ==
  /\ calls[p].pc = "idle"
  /\ nCalls < MaxCalls
  /\ LET g == getWorldFromEnv(envMap, ok)
         c == [IdleCall EXCEPT !.op = "fetchRun", !.runId = runId, !.world = g.world,
                               !.key = g.key]
     IN  /\ processEnv' = g.env
         /\ worldCache' = g.cache
         /\ nextWorld' = nextWorld + g.made
         /\ cacheLog' = Append(cacheLog, CacheLogEntry(g))
         /\ calls' = [calls EXCEPT ![p] =
                        IF g.threw THEN fetchCatch(c, CreateWorldError)
                        ELSE [c EXCEPT !.pc = "runs.get"]]
  /\ nCalls' = nCalls + 1
  /\ UNCHANGED <<events, queued, prev, probe>>

\* await world.runs.get returns the run; hydrate and createResponse follow.
\* hydrateOk: hydrateResourceIO returns; wrapOk: JSON.stringify of the
\* hydrated run returns.
FetchRunsGet(p, hydrateOk, wrapOk) ==
  /\ calls[p].op = "fetchRun" /\ calls[p].pc = "runs.get"
  /\ calls[p].runId \in DOMAIN RunTable
  /\ LET c == [calls[p] EXCEPT !.run = RunTable[calls[p].runId],
                               !.trace = Append(@, Did("runs.get", "", TRUE))]
         h == hydrate(RunObject(c.run), hydrateOk)
     IN  calls' = [calls EXCEPT ![p] =
           IF h.threw THEN fetchCatch(c, HydrateError)
           ELSE IF ~wrapOk THEN fetchCatch(c, StringifyError)
           ELSE Returned(c, createResponse(h.data))]
  /\ UNCHANGED <<processEnv, worldCache, nextWorld, cacheLog, events, queued, prev,
                 nCalls, probe>>

FetchRunsGetFails(p, error) ==
  /\ calls[p].op = "fetchRun" /\ calls[p].pc = "runs.get"
  /\ IF calls[p].runId \in DOMAIN RunTable
     THEN error \in WorldFailures
     ELSE error \in NotFoundFailures
  /\ calls' = [calls EXCEPT ![p] =
       fetchCatch([@ EXCEPT !.trace = Append(@, Did("runs.get", "", FALSE))], error)]
  /\ UNCHANGED <<processEnv, worldCache, nextWorld, cacheLog, events, queued, prev,
                 nCalls, probe>>

\* catch of reenqueueRun
reenqueueCatch(c, error) ==
  Returned(c, createServerActionError(error, "reenqueueRun", [runId |-> c.runId]))

\* reenqueueRun(worldEnv, runId) up to its first await
ReenqueueStart(p, envMap, runId, ok) ==
  /\ calls[p].pc = "idle"
  /\ nCalls < MaxCalls
  /\ LET g == getWorldFromEnv(envMap, ok)
         c == [IdleCall EXCEPT !.op = "reenqueueRun", !.runId = runId,
                               !.world = g.world, !.key = g.key]
     IN  /\ processEnv' = g.env
         /\ worldCache' = g.cache
         /\ nextWorld' = nextWorld + g.made
         /\ cacheLog' = Append(cacheLog, CacheLogEntry(g))
         /\ calls' = [calls EXCEPT ![p] =
                        IF g.threw THEN reenqueueCatch(c, CreateWorldError)
                        ELSE [c EXCEPT !.pc = "runs.get"]]
  /\ nCalls' = nCalls + 1
  /\ UNCHANGED <<events, queued, prev, probe>>

\* await world.runs.get returns the run; world.queue is issued
ReenqueueRunsGet(p) ==
  /\ calls[p].op = "reenqueueRun" /\ calls[p].pc = "runs.get"
  /\ calls[p].runId \in DOMAIN RunTable
  /\ calls' = [calls EXCEPT ![p] =
       [@ EXCEPT !.pc = "queue", !.run = RunTable[calls[p].runId],
                 !.trace = Append(@, Did("runs.get", "", TRUE))]]
  /\ UNCHANGED <<processEnv, worldCache, nextWorld, cacheLog, events, queued, prev,
                 nCalls, probe>>

ReenqueueRunsGetFails(p, error) ==
  /\ calls[p].op = "reenqueueRun" /\ calls[p].pc = "runs.get"
  /\ IF calls[p].runId \in DOMAIN RunTable
     THEN error \in WorldFailures
     ELSE error \in NotFoundFailures
  /\ calls' = [calls EXCEPT ![p] =
       reenqueueCatch([@ EXCEPT !.trace = Append(@, Did("runs.get", "", FALSE))], error)]
  /\ UNCHANGED <<processEnv, worldCache, nextWorld, cacheLog, events, queued, prev,
                 nCalls, probe>>

\* await world.queue(...) is accepted; return createResponse(undefined)
ReenqueueQueue(p) ==
  /\ calls[p].op = "reenqueueRun" /\ calls[p].pc = "queue"
  /\ LET c == calls[p]
         c2 == [c EXCEPT !.trace = Append(@, Did("queue", "", TRUE))]
     IN  /\ queued' = Append(queued, queueMessage(c.run, c.runId))
         /\ calls' = [calls EXCEPT ![p] = Returned(c2, createResponse(JSUndefined))]
  /\ UNCHANGED <<processEnv, worldCache, nextWorld, cacheLog, events, prev, nCalls,
                 probe>>

ReenqueueQueueFails(p, error) ==
  /\ calls[p].op = "reenqueueRun" /\ calls[p].pc = "queue"
  /\ error \in WorldFailures
  /\ calls' = [calls EXCEPT ![p] =
       reenqueueCatch([@ EXCEPT !.trace = Append(@, Did("queue", "", FALSE))], error)]
  /\ UNCHANGED <<processEnv, worldCache, nextWorld, cacheLog, events, queued, prev,
                 nCalls, probe>>

\* catch of readStreamServerAction: the error record itself is returned,
\* not the result that holds it (return actionError.error)
readStreamCatch(c, error) ==
  Returned(c, createServerActionError(error, "world.readFromStream",
                [streamId |-> c.runId]).error)

\* readStreamServerAction(env, streamId) up to its await.  The stream id is
\* kept in the call's runId field.
ReadStreamStart(p, envMap, streamId, ok) ==
  /\ calls[p].pc = "idle"
  /\ nCalls < MaxCalls
  /\ LET g == getWorldFromEnv(envMap, ok)
         c == [IdleCall EXCEPT !.op = "readStreamServerAction", !.runId = streamId,
                               !.world = g.world, !.key = g.key]
     IN  /\ processEnv' = g.env
         /\ worldCache' = g.cache
         /\ nextWorld' = nextWorld + g.made
         /\ cacheLog' = Append(cacheLog, CacheLogEntry(g))
         /\ calls' = [calls EXCEPT ![p] =
                        IF g.threw THEN readStreamCatch(c, CreateWorldError)
                        ELSE [c EXCEPT !.pc = "readFromStream"]]
  /\ nCalls' = nCalls + 1
  /\ UNCHANGED <<events, queued, prev, probe>>

\* await world.readFromStream returns the stream; it is piped through the
\* deserializer (pipeOk) and returned as it is
ReadFromStream(p, pipeOk) ==
  /\ calls[p].op = "readStreamServerAction" /\ calls[p].pc = "readFromStream"
  /\ LET c == [calls[p] EXCEPT !.trace = Append(@, Did("readFromStream", "", TRUE))]
     IN  calls' = [calls EXCEPT ![p] =
           IF pipeOk THEN Returned(c, [stream |-> c.runId])
           ELSE readStreamCatch(c, PipeError)]
  /\ UNCHANGED <<processEnv, worldCache, nextWorld, cacheLog, events, queued, prev,
                 nCalls, probe>>

ReadFromStreamFails(p, error) ==
  /\ calls[p].op = "readStreamServerAction" /\ calls[p].pc = "readFromStream"
  /\ error \in WorldFailures
  /\ calls' = [calls EXCEPT ![p] =
       readStreamCatch([@ EXCEPT !.trace = Append(@, Did("readFromStream", "", FALSE))],
                       error)]
  /\ UNCHANGED <<processEnv, worldCache, nextWorld, cacheLog, events, queued, prev,
                 nCalls, probe>>

-----------------------------------------------------------------------------
(* Specification of the server actions, one request at a time, every call  *)
(* on the World free to fail                                               *)

\* the event log run r1 starts with
OpsLogs ==
  { <<>>,
    << Event("wait_created", "A") >>,
    << Event("wait_created", "A"), Event("wait_created", "B") >>,
    << Event("wait_created", "A"), Event("wait_created", "B"),
       Event("wait_completed", "A") >> }

InitOps ==
  /\ InitProcess
  /\ \E log \in OpsLogs : events = [r \in DOMAIN RunTable |-> IF r = "r1" THEN log ELSE <<>>]
  /\ probe = NoProbe

NextOps ==
  \/ \E runId \in WakeRunIds, ok \in BOOLEAN :
       WakeStart(1, EmptyEnvMap, runId, NoOptions, ok)
  \/ WakeSteps(1)
  \/ \E runId \in WakeRunIds, ok \in BOOLEAN : FetchStart(1, EmptyEnvMap, runId, ok)
  \/ \E hydrateOk \in BOOLEAN, wrapOk \in BOOLEAN : FetchRunsGet(1, hydrateOk, wrapOk)
  \/ \E error \in NotFoundFailures \cup WorldFailures : FetchRunsGetFails(1, error)
  \/ \E runId \in WakeRunIds, ok \in BOOLEAN : ReenqueueStart(1, EmptyEnvMap, runId, ok)
  \/ ReenqueueRunsGet(1)
  \/ \E error \in NotFoundFailures \cup WorldFailures : ReenqueueRunsGetFails(1, error)
  \/ ReenqueueQueue(1)
  \/ \E error \in WorldFailures : ReenqueueQueueFails(1, error)
  \/ \E token \in DOMAIN HookTable, ok \in BOOLEAN : ResumeStart(1, EmptyEnvMap, token, ok)
  \/ ResumeDelivered(1)
  \/ \E error \in HookFailures : ResumeFails(1, error)
  \/ \E ok \in BOOLEAN : ReadStreamStart(1, EmptyEnvMap, "strm1", ok)
  \/ \E pipeOk \in BOOLEAN : ReadFromStream(1, pipeOk)
  \/ \E error \in WorldFailures : ReadFromStreamFails(1, error)
  \/ Return(1)

SpecOps == InitOps /\ [][NextOps]_vars

\* the invocations of a state: those in flight and the last that returned
Invocations == {calls[p] : p \in Slots} \cup {prev}

-----------------------------------------------------------------------------
(* C17 *)

\* an error record as createServerActionError builds it
IsErrorRecord(e) ==
  /\ DOMAIN e = {"message", "layer", "cause", "request"}
  /\ e.layer \in {"API", "server"}
  /\ DOMAIN e.request = {"operation", "params", "status"}

\* a ServerActionResult with exactly one variant populated
ExactlyOneVariant(r) ==
  /\ "success" \in DOMAIN r
  /\ IF r.success
     THEN "data" \in DOMAIN r /\ "error" \notin DOMAIN r
     ELSE "error" \in DOMAIN r /\ "data" \notin DOMAIN r /\ IsErrorRecord(r.error)

\* a call on which handle construction, a World call, the dispatch call,
\* hydration or response wrapping failed
Failed(c) ==
  /\ c.pc = "done"
  /\ \/ c.trace = <<>>
     \/ ~c.trace[Len(c.trace)].ok
     \/ c.op = "fetchRun" /\ c.result # createResponse(toJSONCompatible(RunObject(c.run)))
     \/ c.op = "readStreamServerAction" /\ c.result # [stream |-> c.runId]

\* C17 as claimed: no server action throws; every one that has returned,
\* whatever failed in it, returned a result with exactly one variant
\* populated.
C17_AsClaimed ==
  \A c \in Invocations :
     /\ c.pc # "threw"
     /\ c.pc = "done" => ExactlyOneVariant(c.result)

\* C17 amended: no server action throws; every one but
\* readStreamServerAction returns a result with exactly one variant
\* populated, and a failure in it gives the failure variant;
\* readStreamServerAction returns the stream itself, or on a failure the
\* bare error record of the classifier.
C17_NoThrow ==
  \A c \in Invocations :
     /\ c.pc # "threw"
     /\ c.pc = "done" /\ c.op # "readStreamServerAction" =>
          /\ ExactlyOneVariant(c.result)
          /\ Failed(c) => ~c.result.success
     /\ c.pc = "done" /\ c.op = "readStreamServerAction" =>
          IF Failed(c) THEN IsErrorRecord(c.result) ELSE c.result = [stream |-> c.runId]

\* hydration failed in a fetchRun call after the dispatch call failed in a
\* reenqueueRun call: two failure results
C17_Witness ==
  /\ calls[1].op = "fetchRun" /\ calls[1].pc = "done"
  /\ calls[1].trace = <<Did("runs.get", "", TRUE)>>
  /\ ~calls[1].result.success
  /\ calls[1].result.error.message = <<ErrorPrefix, "Failed to hydrate data">>
  /\ prev.op = "reenqueueRun"
  /\ prev.trace = <<Did("runs.get", "", TRUE), Did("queue", "", FALSE)>>
  /\ ~prev.result.success

-----------------------------------------------------------------------------
(* C18 *)

\* the call on the World an invocation is waiting for
InFlight(c) ==
  IF c.pc = "events.create"
  THEN <<c.pc, c.pendingWaits[c.idx].correlationId>>
  ELSE <<c.pc, "">>

\* C18: within one invocation no call on the World (or dispatch call) is
\* issued twice, and a call that failed is the last one the invocation
\* issued: the invocation has returned the failure result.
C18_NothingRetried ==
  \A c \in Invocations :
     /\ \A i, j \in 1..Len(c.trace) :
          i < j => <<c.trace[i].call, c.trace[i].corr>> # <<c.trace[j].call, c.trace[j].corr>>
     /\ \A i \in 1..Len(c.trace) :
          /\ <<c.trace[i].call, c.trace[i].corr>> # InFlight(c)
          /\ ~c.trace[i].ok =>
               /\ i = Len(c.trace)
               /\ c.pc = "done"
               /\ IF c.op = "readStreamServerAction" THEN IsErrorRecord(c.result)
                  ELSE ~c.result.success

\* wakeUpRun appended for A, the append for B was refused: nothing more is
\* issued, the run is not dispatched
C18_Witness ==
  /\ calls[1].op = "wakeUpRun" /\ calls[1].pc = "done"
  /\ calls[1].trace = << Did("runs.get", "", TRUE), Did("events.list", "", TRUE),
                         Did("events.create", "A", TRUE), Did("events.create", "B", FALSE) >>
  /\ ~calls[1].result.success
  /\ queued = <<>>
  /\ prev.op = "reenqueueRun" /\ prev.trace = <<Did("runs.get", "", FALSE)>>

-----------------------------------------------------------------------------
(* C19 *)

\* resumeHookRuntime has been invoked in call c
DeliveryInvoked(c) == c.pc = "resumeHookRuntime" \/ c.trace # <<>>

\* the result of c is a failure result of resumeHook built by the classifier
ResumeFailure(c) ==
  /\ DOMAIN c.result = {"success", "error"}
  /\ ~c.result.success
  /\ DOMAIN c.result.error = {"message", "layer", "cause", "request"}
  /\ c.result.error.request.operation = "resumeHook"
  /\ c.result.error.request.params = [token |-> c.runId]

\* C19: in every resumeHook call, when the hook delivery is invoked the
\* cache holds the World of the fingerprint the call resolved; a delivery
\* that succeeds returns exactly the hookId and runId the delivery reported;
\* a delivery that fails returns a classified failure; and when the
\* construction of the World failed the delivery is not invoked and a
\* classified failure is returned.
C19_ResumeHook ==
  \A p \in Slots :
     LET c == calls[p]
     IN  c.op = "resumeHook" =>
           /\ DeliveryInvoked(c) =>
                /\ c.world # NoWorld
                /\ c.key \in DOMAIN worldCache
                /\ worldCache[c.key] = c.world
           /\ c.pc = "done" /\ c.trace = <<Did("resumeHookRuntime", "", TRUE)>> =>
                c.result =
                  [success |-> TRUE,
                   data |-> JSObject(<< <<"hookId", JSString(HookTable[c.runId].hookId)>>,
                                        <<"runId", JSString(HookTable[c.runId].runId)>> >>)]
           /\ c.pc = "done" /\ c.trace = <<Did("resumeHookRuntime", "", FALSE)>> =>
                ResumeFailure(c)
           /\ c.world = NoWorld =>
                /\ c.pc = "done" /\ c.trace = <<>>
                /\ ResumeFailure(c)
                /\ c.result.error.layer = "server"

\* one call delivered to the hook of tok2 and returned hook2 and r2 after
\* another call failed to construct the World
C19_Witness ==
  /\ prev.op = "resumeHook" /\ prev.world = NoWorld /\ prev.trace = <<>>
  /\ ~prev.result.success
  /\ \E p \in Slots :
       /\ calls[p].op = "resumeHook" /\ calls[p].pc = "done"
       /\ calls[p].runId = "tok2"
       /\ calls[p].result.success
       /\ DataField(calls[p].result, "hookId") = JSString("hook2")
       /\ DataField(calls[p].result, "runId") = JSString("r2")
       /\ calls[p].key \in DOMAIN worldCache

-----------------------------------------------------------------------------
(* Display configuration: getServerConfig *)

\* A text the code takes apart (a URL, a path) is the sequence of its
\* pieces; NoText is undefined, <<>> the empty string.
NoText == <<Undefined>>

TruthyText(t) == t # NoText /\ t # <<>>

Max(S) == CHOOSE x \in S : \A y \in S : y <= x

\* the position of the first piece of t at or after `from` that is in
\* `marks`, Len(t) + 1 when there is none
FirstOf(t, from, marks) ==
  IF \E i \in from..Len(t) : t[i] \in marks
  THEN CHOOSE i \in from..Len(t) :
         t[i] \in marks /\ \A j \in from..(i - 1) : t[j] \notin marks
  ELSE Len(t) + 1

SchemeTokens == {"postgres://", "postgresql://"}

PortTokens == {"5432", "6543"}

\* new URL(url) for a URL with an authority: the scheme, then the authority
\* up to the first '/' or '?', in which the last '@' ends the credentials
\* and the first ':' after it starts the port; then the path up to '?'.
\* ok is FALSE when the constructor throws (no scheme, invalid port).
parseURL(url) ==
  IF url = <<>> \/ Head(url) \notin SchemeTokens
  THEN [ok |-> FALSE, userinfo |-> <<>>, hostname |-> <<>>, port |-> <<>>,
        pathname |-> <<>>]
  ELSE LET end == FirstOf(url, 2, {"/", "?"})
           authority == SubSeq(url, 2, end - 1)
           ats == {i \in 1..Len(authority) : authority[i] = "@"}
           lastAt == IF ats = {} THEN 0 ELSE Max(ats)
           hostport == SubSeq(authority, lastAt + 1, Len(authority))
           colon == FirstOf(hostport, 1, {":"})
           port == SubSeq(hostport, colon + 1, Len(hostport))
           query == FirstOf(url, end, {"?"})
       IN  [ok |-> port = <<>> \/ (Len(port) = 1 /\ port[1] \in PortTokens),
            userinfo |-> SubSeq(authority, 1, lastAt - 1),
            hostname |-> SubSeq(hostport, 1, colon - 1),
            port |-> port,
            pathname |-> SubSeq(url, end, query - 1)]

\* faulty variant of extractHostnameFromUrl: the authority is returned whole
extractHostnameFromUrl_Authority(url) ==
  IF ~TruthyText(url) THEN NoText
  ELSE IF ~parseURL(url).ok THEN NoText
  ELSE SubSeq(url, 2, FirstOf(url, 2, {"/", "?"}) - 1)

extractHostnameFromUrl(url) ==
  IF ~TruthyText(url) THEN NoText
  ELSE LET parsed == parseURL(url)
       IN  IF ~parsed.ok THEN NoText
           ELSE IF parsed.hostname = <<>> THEN NoText
           ELSE parsed.hostname

\* parsed.pathname?.slice(1): the pathname without its leading '/'
extractDatabaseFromUrl(url) ==
  IF ~TruthyText(url) THEN NoText
  ELSE LET parsed == parseURL(url)
       IN  IF ~parsed.ok THEN NoText
           ELSE LET dbName == IF parsed.pathname = <<>> THEN <<>> ELSE Tail(parsed.pathname)
                IN  IF dbName = <<>> THEN NoText ELSE dbName

\* the part of a scoped package name after its last '/'
LastPart(targetWorld) ==
  CASE targetWorld = "@workflow/world-vercel" -> "world-vercel"
    [] targetWorld = "@workflow/world-local" -> "world-local"
    [] targetWorld = "@acme/world-redis" -> "world-redis"
    [] OTHER -> targetWorld

StartsWithAt(targetWorld) ==
  targetWorld \in {"@workflow/world-postgres", "@workflow/world-vercel",
                   "@workflow/world-local", "@acme/world-redis"}

getBackendDisplayName(targetWorld) ==
  IF ~Truthy(targetWorld) THEN "Local"
  ELSE IF targetWorld = "local" THEN "Local"
  ELSE IF targetWorld = "vercel" THEN "Vercel"
  ELSE IF targetWorld \in {"@workflow/world-postgres", "postgres"} THEN "PostgreSQL"
  ELSE IF StartsWithAt(targetWorld) THEN LastPart(targetWorld)
  ELSE targetWorld

\* A path is the sequence of its segments below the root; a path in the
\* home directory begins with the segments of the home directory.
IsPrefix(a, b) == Len(a) <= Len(b) /\ SubSeq(b, 1, Len(a)) = a

\* the number of characters of a segment
SegmentLength(seg) ==
  CASE seg = "home" -> 4
    [] seg = "carol" -> 5
    [] seg = ".workflow-data" -> 14
    [] seg = "a-project-directory-with-a-long-name" -> 36
    [] OTHER -> 4

RECURSIVE PathLength(_)
\* characters of '/' + segments joined by '/'
PathLength(segs) ==
  IF segs = <<>> THEN 0 ELSE 1 + SegmentLength(Head(segs)) + PathLength(Tail(segs))

\* shortenPath(filePath): [lead, segs] is lead followed by the segments,
\* lead being '' (the path as given), '~' or '...'.  A relative path is not
\* told apart from the absolute path of the same segments.
shortenPath(filePath, homeDir) ==
  IF filePath = <<>> THEN [lead |-> "", segs |-> <<>>]
  ELSE LET inHome == TruthyText(homeDir) /\ IsPrefix(homeDir, filePath)
           rest == IF inHome THEN SubSeq(filePath, Len(homeDir) + 1, Len(filePath))
                   ELSE filePath
           length == (IF inHome THEN 1 ELSE 0) + PathLength(rest)
           segments == (IF inHome THEN <<"~">> ELSE <<>>) \o rest
       IN  IF length > 40 /\ Len(segments) > 2
           THEN [lead |-> "...",
                 segs |-> SubSeq(segments, Len(segments) - 1, Len(segments))]
           ELSE [lead |-> (IF inHome THEN "~" ELSE ""), segs |-> rest]

NoPath == [lead |-> Undefined, segs |-> <<>>]

\* getServerConfig(), env being process.env
getServerConfig(env) ==
  LET targetWorld == env["WORKFLOW_TARGET_WORLD"]
      effectiveBackend ==
        IF Truthy(targetWorld) THEN targetWorld
        ELSE IF Truthy(env["VERCEL_DEPLOYMENT_ID"]) THEN "vercel" ELSE "local"
      isVercel == effectiveBackend \in {"vercel", "@workflow/world-vercel"}
      isPostgres == ~isVercel /\ effectiveBackend \in {"@workflow/world-postgres", "postgres"}
      isLocal == ~isVercel /\ ~isPostgres
                   /\ effectiveBackend \in {"local", "@workflow/world-local"}
      homeDir == IF TruthyText(env["HOME"]) THEN env["HOME"] ELSE env["USERPROFILE"]
  IN  [isConfigured |-> TRUE,
       backendDisplayName |-> getBackendDisplayName(effectiveBackend),
       backendId |-> effectiveBackend,
       displayInfo |->
         [environment |->
            IF isVercel
            THEN (IF Truthy(env["WORKFLOW_VERCEL_ENV"]) THEN env["WORKFLOW_VERCEL_ENV"]
                  ELSE "production")
            ELSE Undefined,
          projectName |-> IF isVercel THEN env["WORKFLOW_VERCEL_PROJECT"] ELSE Undefined,
          teamName |-> IF isVercel THEN env["WORKFLOW_VERCEL_TEAM"] ELSE Undefined,
          hostname |->
            IF isPostgres THEN extractHostnameFromUrl(env["WORKFLOW_POSTGRES_URL"])
            ELSE NoText,
          database |->
            IF isPostgres THEN extractDatabaseFromUrl(env["WORKFLOW_POSTGRES_URL"])
            ELSE NoText,
          dataDir |->
            IF isLocal
            THEN shortenPath(
                   IF TruthyText(env["WORKFLOW_LOCAL_DATA_DIR"])
                   THEN env["WORKFLOW_LOCAL_DATA_DIR"] ELSE <<".workflow-data">>,
                   homeDir)
            ELSE NoPath]]

-----------------------------------------------------------------------------
(* Specification of the display configuration: getServerConfig under two   *)
(* process environments that differ in their secrets only                  *)

TargetSample ==
  {Undefined, "", "local", "vercel", "postgres", "@workflow/world-postgres",
   "@workflow/world-vercel", "@workflow/world-local", "@acme/world-redis", "redis"}

TokenSample == {Undefined, "tok_live_1", "tok_live_2"}

\* the credentials of a Postgres URL with the '@' that ends them: none, a
\* user, a user and a password, a password with '@' and ':' in it
CredentialSample ==
  { <<>>,
    <<"alice", "@">>,
    <<"alice", ":", "pw1", "@">>,
    <<"bob", ":", "pw2", "@">>,
    <<"bob", ":", "p", "@", "w", ":", "1", "@">> }

\* what follows the credentials: host, port, database, parameters
LocationSample ==
  { <<"db.example.com", "/", "mydb">>,
    <<"db.example.com", ":", "5432", "/", "mydb", "?", "sslmode=require">>,
    <<"db.example.com">>,
    <<"db.example.com", ":", "notaport", "/", "mydb">> }

\* `${scheme}${credentials}${location}`
PostgresUrl(credentials, location) == <<"postgres://">> \o credentials \o location

\* values of WORKFLOW_POSTGRES_URL that are no URL with credentials: unset,
\* empty, a host name without a scheme
OtherUrlSample == {NoText, <<>>, <<"db.example.com", "/", "mydb">>}

DataDirSample ==
  { NoText,
    <<"home", "carol", "data">>,
    <<"home", "carol", "a-project-directory-with-a-long-name", "app", ".workflow-data">>,
    <<"srv", "data">> }

ConfigEnv(target, deployment, token, url, dataDir) ==
  [k \in {"WORKFLOW_TARGET_WORLD", "VERCEL_DEPLOYMENT_ID", "WORKFLOW_VERCEL_ENV",
          "WORKFLOW_VERCEL_PROJECT", "WORKFLOW_VERCEL_TEAM", "WORKFLOW_VERCEL_AUTH_TOKEN",
          "WORKFLOW_POSTGRES_URL", "WORKFLOW_LOCAL_DATA_DIR", "HOME", "USERPROFILE"} |->
     CASE k = "WORKFLOW_TARGET_WORLD" -> target
       [] k = "VERCEL_DEPLOYMENT_ID" -> deployment
       [] k = "WORKFLOW_VERCEL_ENV" -> IF deployment = Undefined THEN Undefined ELSE "preview"
       [] k = "WORKFLOW_VERCEL_PROJECT" -> "prj_1"
       [] k = "WORKFLOW_VERCEL_TEAM" -> Undefined
       [] k = "WORKFLOW_VERCEL_AUTH_TOKEN" -> token
       [] k = "WORKFLOW_POSTGRES_URL" -> url
       [] k = "WORKFLOW_LOCAL_DATA_DIR" -> dataDir
       [] k = "HOME" -> <<"home", "carol">>
       [] OTHER -> NoText]

InitConfig ==
  /\ InitProcess
  /\ events = [r \in DOMAIN RunTable |-> <<>>]
  /\ \E target \in TargetSample, deployment \in {Undefined, "dpl_1"},
        token1 \in TokenSample, token2 \in TokenSample, dataDir \in DataDirSample :
       \/ \E c1 \in CredentialSample, c2 \in CredentialSample, loc \in LocationSample :
            probe = [spec |-> "config",
                     env1 |-> ConfigEnv(target, deployment, token1,
                                        PostgresUrl(c1, loc), dataDir),
                     env2 |-> ConfigEnv(target, deployment, token2,
                                        PostgresUrl(c2, loc), dataDir),
                     c1 |-> c1, c2 |-> c2,
                     out1 |-> <<>>, out2 |-> <<>>, done |-> FALSE]
       \/ \E url \in OtherUrlSample :
            probe = [spec |-> "config",
                     env1 |-> ConfigEnv(target, deployment, token1, url, dataDir),
                     env2 |-> ConfigEnv(target, deployment, token2, url, dataDir),
                     c1 |-> <<>>, c2 |-> <<>>,
                     out1 |-> <<>>, out2 |-> <<>>, done |-> FALSE]

\* getServerConfig() in each of the two processes
GetServerConfig ==
  /\ probe.spec = "config" /\ ~probe.done
  /\ probe' = [probe EXCEPT !.out1 = <<getServerConfig(probe.env1)>>,
                            !.out2 = <<getServerConfig(probe.env2)>>,
                            !.done = TRUE]
  /\ UNCHANGED <<processEnv, worldCache, nextWorld, cacheLog, events, queued, calls,
                 prev, nCalls>>

NextConfig == GetServerConfig

SpecConfig == InitConfig /\ [][NextConfig]_vars

-----------------------------------------------------------------------------
(* C20 *)

\* the pieces of a ServerConfig
ConfigPieces(config) ==
  {config.backendDisplayName, config.backendId, config.displayInfo.environment,
   config.displayInfo.projectName, config.displayInfo.teamName,
   config.displayInfo.dataDir.lead}
    \cup SeqToSet(config.displayInfo.hostname)
    \cup SeqToSet(config.displayInfo.database)
    \cup SeqToSet(config.displayInfo.dataDir.segs)

\* the auth token of an environment and the pieces of the user name and
\* password of its Postgres URL
Secrets(env, credentials) ==
  ({env["WORKFLOW_VERCEL_AUTH_TOKEN"]} \cup SeqToSet(credentials)) \ {Undefined, ":", "@"}

\* the two environments agree on everything but the auth token and the
\* Postgres URL
SameButSecrets ==
  \A k \in DOMAIN probe.env1 :
     k \notin {"WORKFLOW_VERCEL_AUTH_TOKEN", "WORKFLOW_POSTGRES_URL"} =>
       probe.env1[k] = probe.env2[k]

\* C20: for two process configurations that differ only in the auth token
\* or in the user and password of the Postgres URL, getServerConfig returns
\* the same display configuration, and no piece of it is the token or a
\* piece of the credentials.
C20_NoSecrets ==
  probe.done /\ SameButSecrets =>
    /\ probe.out1 = probe.out2
    /\ ConfigPieces(probe.out1[1]) \cap Secrets(probe.env1, probe.c1) = {}
    /\ ConfigPieces(probe.out2[1]) \cap Secrets(probe.env2, probe.c2) = {}

\* a Postgres backend, two tokens, two passwords: one host and one database
C20_Witness ==
  /\ probe.done
  /\ probe.env1["WORKFLOW_TARGET_WORLD"] = "postgres"
  /\ probe.env1["WORKFLOW_VERCEL_AUTH_TOKEN"] # probe.env2["WORKFLOW_VERCEL_AUTH_TOKEN"]
  /\ probe.c1 = <<"alice", ":", "pw1", "@">>
  /\ probe.c2 = <<"bob", ":", "p", "@", "w", ":", "1", "@">>
  /\ probe.env1["WORKFLOW_POSTGRES_URL"] # probe.env2["WORKFLOW_POSTGRES_URL"]
  /\ probe.out1[1].displayInfo.hostname = <<"db.example.com">>
  /\ probe.out2[1].displayInfo.database = <<"mydb">>

-----------------------------------------------------------------------------
(* Response Envelope: createResponse on its own *)

\* values without members
LeafSample ==
  { JSNumber(1), JSString("a"), JSNull, JSUndefined, JSFunction, JSBigInt,
    JSDate("2024-01-01T00:00:00.000Z"), JSCycle }

\* objects and arrays whose members are taken from `members`
ContainersOf(members) ==
  { JSObject(<<>>), JSArray(<<>>) }
    \cup { JSObject(<< <<"a", m>> >>) : m \in members }
    \cup { JSArray(<<m>>) : m \in members }
    \cup { JSObject(<< <<"a", m>>, <<"b", JSNumber(2)>> >>) : m \in members }
    \cup { JSArray(<<JSNumber(2), m>>) : m \in members }

\* the values createResponse is applied to: leaves, and containers nested
\* up to two deep
DataSample == LeafSample \cup ContainersOf(LeafSample \cup ContainersOf(LeafSample))

InitEnvelope ==
  /\ InitProcess
  /\ events = [r \in DOMAIN RunTable |-> <<>>]
  /\ \E data \in DataSample :
       probe = [spec |-> "envelope", data |-> data, threw |-> FALSE,
                result |-> NoResult, done |-> FALSE]

\* createResponse(data) returns
WrapSuccess ==
  /\ probe.spec = "envelope" /\ ~probe.done
  /\ ~toJSONCompatibleThrows(probe.data)
  /\ probe' = [probe EXCEPT !.done = TRUE, !.result = createResponse(probe.data)]
  /\ UNCHANGED <<processEnv, worldCache, nextWorld, cacheLog, events, queued, calls,
                 prev, nCalls>>

\* createResponse(data) raises the TypeError of JSON.stringify
WrapSuccessThrows ==
  /\ probe.spec = "envelope" /\ ~probe.done
  /\ toJSONCompatibleThrows(probe.data)
  /\ probe' = [probe EXCEPT !.done = TRUE, !.threw = TRUE]
  /\ UNCHANGED <<processEnv, worldCache, nextWorld, cacheLog, events, queued, calls,
                 prev, nCalls>>

NextEnvelope == WrapSuccess \/ WrapSuccessThrows

SpecEnvelope == InitEnvelope /\ [][NextEnvelope]_vars

\* what JSON cannot write down
NonSerializableKinds == {"undefined", "function", "bigint", "cycle"}

RECURSIVE HasNonSerializable(_)
\* v has a member, at any depth, that JSON cannot write down
HasNonSerializable(v) ==
  IF v.t = "object"
  THEN \E i \in 1..Len(v.props) :
         \/ v.props[i][2].t \in NonSerializableKinds
         \/ HasNonSerializable(v.props[i][2])
  ELSE IF v.t = "array"
  THEN \E i \in 1..Len(v.items) :
         \/ v.items[i].t \in NonSerializableKinds
         \/ HasNonSerializable(v.items[i])
  ELSE FALSE

RECURSIVE WithoutNonSerializable(_)
\* v with every non-serializable member left out
WithoutNonSerializable(v) ==
  IF v.t = "object"
  THEN JSObject(
         LET kept == SelectSeq(v.props, LAMBDA pr : pr[2].t \notin NonSerializableKinds)
         IN  [i \in 1..Len(kept) |-> <<kept[i][1], WithoutNonSerializable(kept[i][2])>>])
  ELSE IF v.t = "array"
  THEN JSArray(
         LET kept == SelectSeq(v.items, LAMBDA m : m.t \notin NonSerializableKinds)
         IN  [i \in 1..Len(kept) |-> WithoutNonSerializable(kept[i])])
  ELSE v

\* C21 (as claimed): createResponse never raises; a value all of whose
\* members are serializable comes back as success with an equal value, and a
\* value with non-serializable members comes back as success with exactly
\* those members absent.
C21_AsClaimed ==
  probe.spec = "envelope" /\ probe.done =>
    /\ ~probe.threw
    /\ probe.result.success
    /\ probe.result.data = WithoutNonSerializable(probe.data)

-----------------------------------------------------------------------------
(* C22 *)

\* events of a run whose waits may lack a correlationId: absent or empty
SkipAlphabet ==
  { Event("wait_created", "A"), Event("wait_completed", "A"),
    Event("wait_created", Undefined), Event("wait_created", "") }

SkipLogs ==
  {log \in UNION {[1..n -> SkipAlphabet] : n \in 0..MaxEvents} : WellFormedLog(log)}

InitSkip ==
  /\ InitProcess
  /\ \E log \in SkipLogs : events = [r \in DOMAIN RunTable |-> IF r = "r1" THEN log ELSE <<>>]
  /\ probe = NoProbe

SpecSkip == InitSkip /\ [][Next]_vars

\* the pending waits of a call that carry no correlationId
WithoutCorrelationId(pending) ==
  CountIn(pending, {e \in SeqToSet(pending) : ~Truthy(e.correlationId)})

\* C22: a pending wait_created event without a correlationId (absent or
\* empty) is skipped by wakeUpRun: no events.create call is issued for it, no
\* wait_completed event without a correlationId enters the log, and when no
\* call on the World is refused the call returns success.
C22_SkippedSilently ==
  /\ \A i \in 1..Len(events["r1"]) :
       events["r1"][i].eventType = "wait_completed" => Truthy(events["r1"][i].correlationId)
  /\ \A p \in Slots :
       LET c == calls[p]
       IN  Listed(c) /\ WithoutCorrelationId(c.pendingWaits) > 0 =>
             /\ \A i \in 1..Len(c.trace) :
                  c.trace[i].call = "events.create" => Truthy(c.trace[i].corr)
             /\ c.pc = "events.create" => Truthy(c.pendingWaits[c.idx].correlationId)
             /\ CreatesIssued(c) <= WithCorrelationId(c.pendingWaits)
             /\ c.pc = "done" /\ NothingFailed(c) =>
                  /\ Succeeded(c)
                  /\ AcceptedAppends(c) = WithCorrelationId(c.pendingWaits)

\* a wait with a correlationId between one without and one with an empty
\* correlationId: it alone is completed, the call succeeds
C22_Witness ==
  /\ calls[1].pc = "done" /\ Succeeded(calls[1])
  /\ calls[1].pendingWaits = << Event("wait_created", ""), Event("wait_created", "A"),
                                Event("wait_created", Undefined) >>
  /\ AppendsFor(calls[1], "A") = 1
  /\ AcceptedAppends(calls[1]) = 1

-----------------------------------------------------------------------------
(* Specification of the dispatch: wakeUpRun and reenqueueRun, one request  *)
(* at a time, on runs of the same and of different workflows               *)

DispatchRunIds == DOMAIN RunTable \cup {"r404"}

\* every run either sleeps in one wait or has no event
InitDispatch ==
  /\ InitProcess
  /\ \E sleeping \in SUBSET DOMAIN RunTable :
       events = [r \in DOMAIN RunTable |->
                   IF r \in sleeping THEN << Event("wait_created", "A") >> ELSE <<>>]
  /\ probe = NoProbe

NextDispatch ==
  \/ \E runId \in DispatchRunIds, ok \in BOOLEAN :
       WakeStart(1, EmptyEnvMap, runId, NoOptions, ok)
  \/ WakeSteps(1)
  \/ \E runId \in DispatchRunIds, ok \in BOOLEAN : ReenqueueStart(1, EmptyEnvMap, runId, ok)
  \/ ReenqueueRunsGet(1)
  \/ \E error \in NotFoundFailures \cup WorldFailures : ReenqueueRunsGetFails(1, error)
  \/ ReenqueueQueue(1)
  \/ \E error \in WorldFailures : ReenqueueQueueFails(1, error)
  \/ Return(1)

SpecDispatch == InitDispatch /\ [][NextDispatch]_vars

\* the dispatch the last call that returned (c = prev) or the call in flight
\* issued and the World accepted: the last message queued since
DispatchOf(c) ==
  IF c = prev /\ Dispatched(calls[1]) THEN queued[Len(queued) - 1]
  ELSE queued[Len(queued)]

\* C23: the dispatch wakeUpRun issues goes to a queue whose name is
\* determined by the run's workflow name alone, carries exactly { runId } as
\* payload and the run's own deploymentId, and is the message reenqueueRun
\* issues for that run.
C23_DispatchMessage ==
  /\ \A i \in 1..Len(queued) :
       LET m == queued[i]
       IN  /\ m.payload = [runId |-> m.payload.runId]
           /\ m.payload.runId \in DOMAIN RunTable
           /\ m.opts = [deploymentId |-> RunTable[m.payload.runId].deploymentId]
  /\ \A i, j \in 1..Len(queued) :
       RunTable[queued[i].payload.runId].workflowName
           = RunTable[queued[j].payload.runId].workflowName
         <=> queued[i].queueName = queued[j].queueName
  /\ \A c, d \in Invocations :
       /\ c.op = "wakeUpRun" /\ d.op = "reenqueueRun"
       /\ Dispatched(c) /\ Dispatched(d)
       => /\ DispatchOf(c).payload.runId = c.runId
          /\ DispatchOf(d).payload.runId = d.runId
          /\ c.runId = d.runId => DispatchOf(c) = DispatchOf(d)

\* wakeUpRun, then reenqueueRun of the same run: one message, twice
C23_Witness ==
  /\ prev.op = "wakeUpRun" /\ Dispatched(prev) /\ prev.runId = "r3"
  /\ calls[1].op = "reenqueueRun" /\ Dispatched(calls[1]) /\ calls[1].runId = "r3"
  /\ Len(queued) = 2 /\ queued[1] = queued[2]
  /\ queued[1].opts.deploymentId = "dpl3"

-----------------------------------------------------------------------------
(* C24 *)

\* the effective configuration of a call that found the process environment
\* env and was passed envMap
EffectiveOf(env, envMap) ==
  IF ProcessConfigured(env) THEN ProcessWideSet(env) ELSE envMap

\* env with exactly the non-empty values of eff written into it
WithNonEmpty(env, eff) ==
  [k \in DOMAIN env |->
     IF \E i \in 1..Len(eff) : eff[i][1] = k /\ Truthy(eff[i][2])
     THEN (CHOOSE v \in {eff[i][2] : i \in 1..Len(eff)} :
             \E i \in 1..Len(eff) : eff[i] = <<k, v>>)
     ELSE env[k]]

\* the fingerprint of the last call was in the cache when the call came
WasCached ==
  \E i \in 1..(Len(cacheLog) - 1) :
     cacheLog[i].key = probe.key /\ cacheLog[i].outcome = "constructed"

\* C24: a getWorldFromEnv call that finds its fingerprint in the cache
\* leaves the process environment as it was; a call that does not sets every
\* key whose value in the effective configuration is non-empty to that value
\* and no other key, also when the construction that follows fails.
C24_WrittenOnMissOnly ==
  nCalls > 0 =>
    /\ probe.outcome = "hit" <=> WasCached
    /\ probe.outcome = "hit" => processEnv = probe.before
    /\ probe.outcome # "hit" =>
         processEnv = WithNonEmpty(probe.before, EffectiveOf(probe.before, probe.envMap))

\* a miss that writes one key and skips an empty one, after an earlier call
C24_Witness ==
  /\ Len(cacheLog) = 2
  /\ probe.outcome = "constructed"
  /\ probe.envMap = << <<"WORKFLOW_TARGET_WORLD", "local">>, <<"PORT", "">> >>
  /\ probe.before["WORKFLOW_TARGET_WORLD"] = Undefined
  /\ processEnv["WORKFLOW_TARGET_WORLD"] = "local"
  /\ processEnv["PORT"] = probe.before["PORT"]

-----------------------------------------------------------------------------
(* Specification of the target list: two runs with the same events, one    *)
(* woken without a list of correlation ids and one with an empty list      *)

TwinRuns == {"r1", "r3"}

\* the logs of InitLogs that leave room for one more event
TwinLogs == {log \in InitLogs : Len(log) < MaxEvents}

InitTwin ==
  /\ InitProcess
  /\ \E log \in TwinLogs :
       events = [r \in DOMAIN RunTable |-> IF r \in TwinRuns THEN log ELSE <<>>]
  /\ probe = NoProbe

NextTwin ==
  \/ \E runId \in TwinRuns \cup {"r404"}, options \in {NoOptions, Options(<<>>)},
        ok \in BOOLEAN :
       WakeStart(1, EmptyEnvMap, runId, options, ok)
  \/ WakeSteps(1)
  \/ Return(1)

SpecTwin == InitTwin /\ [][NextTwin]_vars

\* c and d are finished wakeUpRun calls on the two runs, c without a list
\* and d with an empty list, both found the same events and no call on the
\* World was refused
TwinCalls(c, d) ==
  /\ c.op = "wakeUpRun" /\ d.op = "wakeUpRun"
  /\ c.pc = "done" /\ d.pc = "done"
  /\ c.runId \in TwinRuns /\ d.runId \in TwinRuns /\ c.runId # d.runId
  /\ c.options = NoOptions /\ d.options = Options(<<>>)
  /\ Listed(c) /\ Listed(d)
  /\ c.logAtList = d.logAtList
  /\ NothingFailed(c) /\ NothingFailed(d)

-----------------------------------------------------------------------------
(* C26 *)

\* C26 (as claimed): whenever wakeUpRun returns success, stoppedCount is the
\* number of wait_completed events the call appended, and the call issued a
\* dispatch only if it appended at least one event.
C26_CountIsAppends ==
  \A p \in Slots :
     LET c == calls[p]
     IN  c.op = "wakeUpRun" /\ Succeeded(c) =>
           /\ StoppedCount(c) = AcceptedAppends(c)
           /\ DispatchesIssued(c) > 0 => AcceptedAppends(c) >= 1

-----------------------------------------------------------------------------
(* C27 *)

\* the correlation ids that have a wait_completed event in a log
CompletedCorrs(log) ==
  {log[i].correlationId : i \in {j \in 1..Len(log) : log[j].eventType = "wait_completed"}}

\* C27 (as claimed): wakeUpRun never appends a wait_completed event for a
\* correlationId that had a wait_completed event in the run's log when the
\* events were listed, whatever the size of the log.
C27_NoSecondCompletion ==
  \A p \in Slots :
     LET c == calls[p]
     IN  Listed(c) =>
           /\ \A i \in 1..Len(c.trace) :
                c.trace[i].call = "events.create" =>
                  c.trace[i].corr \notin CompletedCorrs(c.logAtList)
           /\ c.pc = "events.create" =>
                c.pendingWaits[c.idx].correlationId \notin CompletedCorrs(c.logAtList)

-----------------------------------------------------------------------------
(* C28 *)

\* c is a wakeUpRun call that returned a failure after the World accepted
\* at least one of its appends and before it accepted a dispatch
FailedAfterAppend(c) ==
  /\ c.op = "wakeUpRun" /\ c.pc = "done" /\ ~c.result.success
  /\ AcceptedAppends(c) >= 1
  /\ ~Dispatched(c)

\* C28 (as claimed): when a wakeUpRun call failed after appending and the
\* caller retries it on that run until it returns success, a dispatch of the
\* run has been issued by the time it returns success.  Here the retry
\* follows the failed call at once and succeeds.
C28_RetryDispatches ==
  /\ FailedAfterAppend(prev)
  /\ calls[1].op = "wakeUpRun" /\ calls[1].runId = prev.runId
  /\ calls[1].options = prev.options
  /\ Succeeded(calls[1])
  => DispatchesIssued(calls[1]) > 0

-----------------------------------------------------------------------------
(* C29 *)

\* C29 (as claimed): after a wakeUpRun call on a run returned success, a
\* second wakeUpRun call on that run with the same arguments (no event is
\* recorded in between but those of the first call) appends no event, issues
\* no dispatch and returns stoppedCount 0.
C29_Idempotent ==
  /\ prev.op = "wakeUpRun" /\ Succeeded(prev)
  /\ calls[1].op = "wakeUpRun" /\ calls[1].runId = prev.runId
  /\ calls[1].options = prev.options
  /\ Listed(calls[1])
  => /\ CreatesIssued(calls[1]) = 0
     /\ DispatchesIssued(calls[1]) = 0
     /\ calls[1].pc = "done" /\ Succeeded(calls[1]) /\ StoppedCount(calls[1]) = 0

-----------------------------------------------------------------------------
(* C30 *)

\* C30 (as claimed): two successive getWorldFromEnv calls that are passed
\* the same EnvMap, with nothing but getWorldFromEnv writing the process
\* environment, resolve to the same fingerprint; when both return a World it
\* is the same World, the second call constructing none.
C30_StableResolution ==
  Len(cacheLog) >= 2 /\ probe.envMap = probe.prior.envMap =>
    /\ probe.key = probe.prior.key
    /\ probe.outcome # "failed" /\ probe.prior.outcome # "failed" =>
         /\ probe.world = probe.prior.world
         /\ probe.outcome = "hit"

-----------------------------------------------------------------------------
(* C31 *)

\* the fingerprints earlier calls stored a World under
StoredBefore ==
  {cacheLog[i].key : i \in {j \in 1..(Len(cacheLog) - 1) : cacheLog[j].outcome = "constructed"}}

\* C31 (as claimed): after a getWorldFromEnv call that missed the cache and
\* whose createWorld() raised, the cache and the process environment are
\* what they were before the call.
C31_FailureLeavesNothing ==
  nCalls > 0 /\ probe.outcome = "failed" =>
    /\ DOMAIN worldCache = StoredBefore
    /\ processEnv = probe.before

-----------------------------------------------------------------------------
(* Specification of the reported backend: getServerConfig() between        *)
(* getWorldFromEnv calls of callers that may name a backend                 *)

\* process.env when the server starts
BackendEnvs ==
  InitEnvs \cup { EnvWith(<< <<"WORKFLOW_TARGET_WORLD", "postgres">> >>),
                  EnvWith(<< <<"VERCEL_DEPLOYMENT_ID", "dpl_1">> >>) }

\* the EnvMaps callers pass
BackendEnvMaps ==
  { <<>>,
    << <<"WORKFLOW_TARGET_WORLD", "">> >>,
    << <<"WORKFLOW_TARGET_WORLD", "local">> >>,
    << <<"WORKFLOW_TARGET_WORLD", "@workflow/world-postgres">> >>,
    << <<"VERCEL_DEPLOYMENT_ID", "dpl_1">> >> }

\* process.env as getServerConfig reads it: the variables it takes apart
\* (URL, paths) are texts, the others are the strings they are
TextOf(v) == IF v = Undefined THEN NoText ELSE IF v = "" THEN <<>> ELSE <<v>>

DisplayEnv(env) ==
  [k \in DOMAIN env \cup {"HOME", "USERPROFILE"} |->
     IF k \in {"HOME", "USERPROFILE"} THEN NoText
     ELSE IF k \in {"WORKFLOW_POSTGRES_URL", "WORKFLOW_LOCAL_DATA_DIR"} THEN TextOf(env[k])
     ELSE env[k]]

InitBackend ==
  /\ processEnv \in BackendEnvs
  /\ worldCache = <<>>
  /\ nextWorld = 0
  /\ cacheLog = <<>>
  /\ queued = <<>>
  /\ calls = [p \in Slots |-> IdleCall]
  /\ prev = IdleCall
  /\ nCalls = 0
  /\ events = [r \in DOMAIN RunTable |-> <<>>]
  /\ probe = [spec |-> "resolve", envMap |-> <<>>, before |-> processEnv,
              key |-> <<>>, world |-> NoWorld, outcome |-> "", prior |-> NoPrior,
              config |-> <<>>]

\* getServerConfig() is called; the probe keeps what it returned
ReadServerConfig ==
  /\ probe.spec = "resolve" /\ probe.config = <<>>
  /\ probe' = [probe EXCEPT !.config = <<getServerConfig(DisplayEnv(processEnv))>>]
  /\ UNCHANGED <<processEnv, worldCache, nextWorld, cacheLog, events, queued, calls,
                 prev, nCalls>>

NextBackend ==
  \/ \E envMap \in BackendEnvMaps, ok \in BOOLEAN : Resolve(envMap, ok)
  \/ ReadServerConfig

SpecBackend == InitBackend /\ [][NextBackend]_vars

\* the kind of backend a backend id names
BackendKind(id) ==
  CASE id \in {"vercel", "@workflow/world-vercel"} -> "vercel"
    [] id \in {"postgres", "@workflow/world-postgres"} -> "postgres"
    [] id \in {"local", "@workflow/world-local"} -> "local"
    [] OTHER -> id

\* The backend of the configuration the resolver selects for an operation
\* that is passed envMap when the process environment is env: the target
\* world of the environment createWorld() is called in, else createWorld()'s
\* default (vercel if VERCEL_DEPLOYMENT_ID is set, else local).
SelectedBackend(env, envMap) ==
  LET applied == WithNonEmpty(env, EffectiveOf(env, envMap))
  IN  IF Truthy(applied["WORKFLOW_TARGET_WORLD"]) THEN applied["WORKFLOW_TARGET_WORLD"]
      ELSE IF Truthy(applied["VERCEL_DEPLOYMENT_ID"]) THEN "vercel"
      ELSE "local"

\* C32 (as claimed): in every state, the backend kind getServerConfig()
\* reports is the backend kind of the configuration the resolver selects for
\* an operation called in that state, whatever EnvMap the caller passes and
\* whether or not a World has been constructed.
C32_ReportedIsSelected ==
  probe.spec = "resolve" /\ probe.config # <<>> =>
    \A envMap \in BackendEnvMaps :
       BackendKind(probe.config[1].backendId)
         = BackendKind(SelectedBackend(processEnv, envMap))
====
